---- MODULE Spec2Model ----
(***************************************************************************)
(* Pulse scheduler (firmware/src/pulse.rs) and real-time task coordinator  *)
(* (firmware/src/main.rs) of the annoyance2 firmware.                      *)
(*                                                                         *)
(* Instants and Durations are fugit u32 tick counters.  The model keeps    *)
(* the wrapping arithmetic but narrows the counter to TickBits bits, so    *)
(* that u32::MAX becomes MaxTick and u32::MAX / 2 becomes HalfRange.       *)
(***************************************************************************)
EXTENDS Integers, Sequences, FiniteSets, TLC

\* ------------------------------------------------------------------ bounds
\* width of the tick counter (u32 in the firmware)
TickBits == 4
\* longest pulse period, in ticks; periods are 1..MaxPeriod
MaxPeriod == 2
\* the pulse-table operations are called with instants at most this far from
\* the counter wrap (on either side of it)
Window == 1

\* ticks between two DMA half/full-transfer interrupts (the buffer period)
BufPeriod == 4
\* longest time one run of swap_buffers takes, in ticks
MaxBusy == 4
\* how many times fire_pulse runs for an instant that was not scheduled
MaxUnscheduled == 1
\* most pulses in a table (the firmware's tables hold up to
\* config::fft::analysis::MAX_PEAKS of them)
MaxPulses == 2

\* ------------------------------------------------------- program constants
\* task priorities (main.rs, "Task priorities")
PRIO_FIRE_PULSE == 16
PRIO_MONO == 15
PRIO_SWAP_BUFFERS == 14
\* config::pulse::MIN_HOLDOFF, a Duration, and config::pulse::HOLDOFF_RATIO,
\* a ScalingFactor<u16>: pulse.rs names them, their values are configuration.
\* Here the minimum spacing is two ticks and the ratio three quarters
MIN_HOLDOFF == 2
HOLDOFF_RATIO == 49151
\* <u16>::BITS, the shift of ScaleBy
FactorBits == 16
\* config::adc::RESOLUTION_BITS
RESOLUTION_BITS == 12
\* u16::MAX
U16_MAX == 65535

TickRange == 2 ^ TickBits
\* u32::MAX
MaxTick == TickRange - 1
\* u32::MAX / 2
HalfRange == MaxTick \div 2

Instant == 0 .. MaxTick
Periods == 1 .. MaxPeriod
\* Option: None is the empty tuple, Some(x) the tuple of x alone
None == << >>
Some(x) == <<x>>

\* a subtraction that stops at zero instead of wrapping
saturating_sub(a, b) == IF a >= b THEN a - b ELSE 0

\* u32::wrapping_sub
wrapping_sub(a, b) == (a - b + TickRange) % TickRange
\* Instant + Duration (fugit: wrapping add of the ticks)
InstantAdd(a, d) == (a + d) % TickRange
\* ScaleBy<u16> for u32: ((self as u64 * by as u64) >> 16) as u32
scale_by(this, by) == (this * by) \div (2 ^ FactorBits)

\* Pulse<Duration>: period and phase offset, 0 <= next < period
\* (Peak::phase_offset scales the period by a factor below one)
UnadjustedPulse == UNION { [period : {p}, next : 0 .. (p - 1)] : p \in Periods }
\* UnadjustedPulses: at most MaxPulses of them
UnadjustedPulses == UNION { [1 .. n -> UnadjustedPulse] : n \in 0 .. MaxPulses }

VARIABLES
    \* Pulses.pulses of the live table: a sequence of [period, next]
    pulses,
    \* Pulses.holdoff_until of the live table
    holdoff_until,
    \* the last operation called (of the pulse table, or a pure function), its
    \* argument and its result
    op, arg, ret,
    \* TRUE when the last call was a try_consume_pulse for the instant that the
    \* call before it had consumed (try_consume_pulse answered Ok)
    again,
    \* the monotonic timer (DwtMono), in ticks
    now,
    \* Local.next_pulses: the staged table, a sequence of [period, next]
    next_pulses,
    \* Shared.scheduled_pulse: None, or the marker of a SpawnHandle
    scheduled_pulse,
    \* the timer queue entry of fire_pulse (capacity 1): None or [at, marker]
    tq,
    \* the DMA1_CHANNEL1 interrupt is pending
    dma_pending,
    \* swap_buffers: position, `start`, and the `next_pulse` of phase 1
    sb_pc, start, sb_next,
    \* fire_pulse: position and the argument `now`
    fp_pc, fp_now,
    \* whether the running (or last) fire_pulse has fired the pulse timer
    pulse_timer,
    \* how the last fire_pulse ended
    fp_log,
    \* how phase 1 of the last swap_buffers went: [cancel, arm]
    sb_log,
    \* the result of the last next_pulse call of a task, and who called
    returned, caller,
    \* how many times fire_pulse ran for an instant that was not scheduled
    unscheduled,
    \* the last swap_buffers warned that processing did not complete in time
    sb_late,
    \* the pulse width fire_pulse loads, in ticks of the pulse timer (the static
    \* PULSE_WIDTH_TICKS)
    PULSE_WIDTH_TICKS

tableVars == <<pulses, holdoff_until>>
callVars == <<op, arg, ret, again>>
taskVars == <<now, next_pulses, scheduled_pulse, tq, dma_pending, sb_pc, start,
              sb_next, fp_pc, fp_now, pulse_timer, fp_log, sb_log, returned, caller, unscheduled,
              sb_late, PULSE_WIDTH_TICKS>>
vars == <<tableVars, callVars, taskVars>>

\* ------------------------------------------------------------ pulse.rs

\* Pulses::replace_with_adjusted
replace_with_adjusted(unadjusted, at) ==
    [i \in 1 .. Len(unadjusted) |->
        [period |-> unadjusted[i].period, next |-> InstantAdd(at, unadjusted[i].next)]]

\* the for loop of try_consume_pulse, from pulse i on
RECURSIVE consume_loop(_, _, _, _)
consume_loop(ps, at, i, found_any_matching) ==
    IF i > Len(ps)
    THEN [pulses |-> ps, found |-> found_any_matching]
    ELSE IF ps[i].next = at
         THEN consume_loop([ps EXCEPT ![i].next = InstantAdd(@, ps[i].period)],
                           at, i + 1, TRUE)
         ELSE consume_loop(ps, at, i + 1, found_any_matching)

\* a consume that stops at the first matching pulse
RECURSIVE consume_loop_first_only(_, _, _, _)
consume_loop_first_only(ps, at, i, found_any_matching) ==
    IF i > Len(ps)
    THEN [pulses |-> ps, found |-> found_any_matching]
    ELSE IF ps[i].next = at
         THEN [pulses |-> [ps EXCEPT ![i].next = InstantAdd(@, ps[i].period)],
               found |-> TRUE]
         ELSE consume_loop_first_only(ps, at, i + 1, found_any_matching)

try_consume_pulse_first_only(ps, at) ==
    LET r == consume_loop_first_only(ps, at, 1, FALSE)
    IN  [pulses |-> r.pulses, ret |-> IF r.found THEN "Ok" ELSE "Err"]

\* a consume that reports the matching pulses but leaves them where they are
try_consume_pulse_no_advance(ps, at) ==
    [pulses |-> ps,
     ret |-> IF \E i \in 1 .. Len(ps) : ps[i].next = at THEN "Ok" ELSE "Err"]

\* Pulses::try_consume_pulse
try_consume_pulse(ps, at) ==
    LET r == consume_loop(ps, at, 1, FALSE)
    IN  [pulses |-> r.pulses, ret |-> IF r.found THEN "Ok" ELSE "Err"]

\* the holdoff of next_pulse with the comparison against the minimum left out
holdoff_of_no_minimum(hu, after) ==
    LET raw_offset == wrapping_sub(hu, after)
    IN  IF raw_offset < HalfRange THEN raw_offset ELSE 0

\* next_pulse: the minimum offset that meets the holdoff time
holdoff_of(hu, after) ==
    LET raw_offset == wrapping_sub(hu, after)
        holdoff == IF raw_offset < HalfRange THEN raw_offset ELSE 0
    IN  IF holdoff >= MIN_HOLDOFF THEN holdoff ELSE MIN_HOLDOFF

\* a pulse below the holdoff advanced by one period, whatever the holdoff
reschedule_once(pulse, offset, holdoff) ==
    IF offset < holdoff
    THEN [pulse |-> [pulse EXCEPT !.next = InstantAdd(@, pulse.period)],
          offset |-> offset + pulse.period]
    ELSE [pulse |-> pulse, offset |-> offset]

\* next_pulse: while offset < holdoff { pulse.next += period; offset += period }
RECURSIVE reschedule(_, _, _)
reschedule(pulse, offset, holdoff) ==
    IF offset < holdoff
    THEN reschedule([pulse EXCEPT !.next = InstantAdd(@, pulse.period)],
                    offset + pulse.period, holdoff)
    ELSE [pulse |-> pulse, offset |-> offset]

\* the placeholder next_pulse starts from: period 0, next 0
PlaceholderPulse == [period |-> 0, next |-> 0]

\* the for loop of next_pulse, from pulse i on; chosen is the index of the
\* pulse `next_pulse` refers to, 0 while it still refers to the placeholder
RECURSIVE next_pulse_loop(_, _, _, _, _, _)
next_pulse_loop(ps, after, holdoff, i, min_offset, chosen) ==
    IF i > Len(ps)
    THEN [pulses |-> ps, chosen |-> chosen]
    ELSE LET r == reschedule(ps[i], wrapping_sub(ps[i].next, after), holdoff)
             ps2 == [ps EXCEPT ![i] = r.pulse]
         IN  IF r.offset < min_offset
             THEN next_pulse_loop(ps2, after, holdoff, i + 1, r.offset, i)
             ELSE next_pulse_loop(ps2, after, holdoff, i + 1, min_offset, chosen)

\* next_pulse without the early return on an empty table
next_pulse_unchecked(ps, hu, after) ==
    LET r == next_pulse_loop(ps, after, holdoff_of(hu, after), 1, MaxTick, 0)
        chosen == IF r.chosen = 0 THEN PlaceholderPulse ELSE r.pulses[r.chosen]
    IN  [pulses |-> r.pulses,
         holdoff_until |->
             InstantAdd(chosen.next, scale_by(chosen.period, HOLDOFF_RATIO)),
         ret |-> Some(chosen.next)]

\* Pulses::next_pulse
next_pulse(ps, hu, after) ==
    IF Len(ps) = 0
    THEN [pulses |-> ps, holdoff_until |-> hu, ret |-> None]
    ELSE LET r == next_pulse_loop(ps, after, holdoff_of(hu, after), 1, MaxTick, 0)
             chosen == IF r.chosen = 0 THEN PlaceholderPulse ELSE r.pulses[r.chosen]
         IN  [pulses |-> r.pulses,
              holdoff_until |->
                  InstantAdd(chosen.next, scale_by(chosen.period, HOLDOFF_RATIO)),
              ret |-> Some(chosen.next)]

\* ------------------------------------------- the pulse table, called freely

\* instants next to the counter wrap
ApiInstants == { x \in Instant : x <= Window \/ x >= MaxTick - Window }

\* the state of the tasks after init (main.rs, init)
InitTasks ==
    /\ now = 0
    /\ next_pulses = << >>
    /\ scheduled_pulse = None
    /\ tq = None
    /\ dma_pending = FALSE
    /\ sb_pc = "idle" /\ start = 0 /\ sb_next = None
    /\ fp_pc = "idle" /\ fp_now = 0
    /\ pulse_timer = "idle"
    /\ fp_log = "none"
    /\ sb_log = [cancel |-> "none", arm |-> "none"]
    /\ returned = None /\ caller = "none"
    /\ unscheduled = 0
    /\ sb_late = FALSE
    /\ PULSE_WIDTH_TICKS = 0

\* Pulses::new(at)
InitPulses ==
    /\ pulses = << >>
    /\ holdoff_until \in Instant
    /\ op = "new"
    /\ arg = holdoff_until
    /\ ret = None
    /\ again = FALSE
    /\ InitTasks

\* replace_with_adjusted discards what the table held, so the model fills a
\* table only when it is empty and empties it (an empty `unadjusted`) at any
\* time: the tables that can be reached are the same, along fewer transitions
ReplaceWithAdjusted(unadjusted, at) ==
    /\ pulses = << >> \/ unadjusted = << >>
    /\ pulses' = replace_with_adjusted(unadjusted, at)
    /\ op' = "replace_with_adjusted"
    /\ arg' = at
    /\ ret' = None
    /\ again' = FALSE
    /\ UNCHANGED holdoff_until

TryConsumePulse(at) ==
    LET r == try_consume_pulse(pulses, at)
    IN  /\ pulses' = r.pulses
        /\ op' = "try_consume_pulse"
        /\ arg' = at
        /\ ret' = r.ret
        /\ again' = (op = "try_consume_pulse" /\ ret = "Ok" /\ arg = at)
        /\ UNCHANGED holdoff_until

NextPulse(after) ==
    LET r == next_pulse(pulses, holdoff_until, after)
    IN  /\ pulses' = r.pulses
        /\ holdoff_until' = r.holdoff_until
        /\ op' = "next_pulse"
        /\ arg' = after
        /\ ret' = r.ret
        /\ again' = FALSE

NextPulses ==
    /\ \E at \in ApiInstants :
          \/ \E unadjusted \in UnadjustedPulses : ReplaceWithAdjusted(unadjusted, at)
          \/ TryConsumePulse(at)
          \/ NextPulse(at)
    /\ UNCHANGED taskVars

SpecPulses == InitPulses /\ [][NextPulses]_vars

\* ------------------------------------------------------------- main.rs

\* swap_buffers is inside the lock on (pulses, scheduled_pulse)
InCritical == sb_pc \in {"replace", "next", "cancel", "arm"}

\* a lock that leaves the priority of swap_buffers as it is
ceiling_of_swap_buffers == PRIO_SWAP_BUFFERS

\* the ceiling of the lock on (pulses, scheduled_pulse): the highest priority
\* among the tasks that share them, fire_pulse and swap_buffers
lock_ceiling ==
    IF PRIO_FIRE_PULSE > PRIO_SWAP_BUFFERS THEN PRIO_FIRE_PULSE ELSE PRIO_SWAP_BUFFERS

\* the priority the core runs at
running_priority ==
    IF fp_pc # "idle" THEN PRIO_FIRE_PULSE
    ELSE IF InCritical THEN lock_ceiling
    ELSE IF sb_pc # "idle" THEN PRIO_SWAP_BUFFERS
    ELSE 0

\* the monotonic timer takes instant `at` for reached (at <= now, compared as
\* fugit compares Instants)
Due(at) == at = now \/ wrapping_sub(at, now) >= HalfRange

\* a fire_pulse that waits for swap_buffers to end
FireReady_when_idle ==
    /\ tq # None /\ Due(tq[1].at)
    /\ fp_pc = "idle" /\ sb_pc = "idle"

\* the scheduled fire_pulse is due and neither the timer interrupt nor the
\* task is masked: it runs before anything else does
FireReady ==
    /\ tq # None /\ Due(tq[1].at)
    /\ fp_pc = "idle"
    /\ PRIO_MONO > running_priority
    /\ PRIO_FIRE_PULSE > running_priority

\* the DMA interrupt is pending and not masked
SwapReady ==
    /\ dma_pending /\ sb_pc = "idle" /\ fp_pc = "idle"
    /\ PRIO_SWAP_BUFFERS > running_priority

\* fire_pulse::spawn_at(at, at): fails when the one message slot of the task
\* is taken by a scheduled fire_pulse; the new handle's marker differs from
\* the marker of the handle held
spawn_at(at) ==
    IF tq = None
    THEN LET m == IF scheduled_pulse = Some(0) THEN 1 ELSE 0
         IN  [ok |-> TRUE, tq |-> Some([at |-> at, marker |-> m]), handle |-> Some(m)]
    ELSE [ok |-> FALSE, tq |-> tq, handle |-> scheduled_pulse]

\* time passes; every BufPeriod ticks the DMA raises its interrupt.
\* swap_buffers reads the clock once, when it starts, so the model lets the
\* clock advance before the lock is taken, once the lock is held, and while
\* the buffer is processed, for MaxBusy ticks a run at most; fire_pulse is
\* over within a tick
Tick ==
    /\ fp_pc = "idle" /\ ~FireReady /\ ~SwapReady
    /\ \/ sb_pc = "idle"
       \/ sb_pc \in {"lock", "replace", "process"} /\ wrapping_sub(now, start) < MaxBusy
    /\ now' = (now + 1) % TickRange
    /\ dma_pending' = (dma_pending \/ now' % BufPeriod = 0)
    /\ UNCHANGED <<tableVars, callVars, next_pulses, scheduled_pulse, tq, sb_pc,
                   start, sb_next, fp_pc, fp_now, pulse_timer, fp_log, sb_log,
                   returned, caller, unscheduled, sb_late, PULSE_WIDTH_TICKS>>

\* a dispatcher that keeps the message slot of the task while the task runs
FirePulseDispatchKeepsSlot ==
    /\ FireReady
    /\ fp_now' = tq[1].at
    /\ fp_pc' = "fire"
    /\ pulse_timer' = "idle"
    /\ fp_log' = "none"
    /\ UNCHANGED <<tableVars, callVars, now, next_pulses, scheduled_pulse, tq,
                   dma_pending, sb_pc, start, sb_next, sb_log, returned, caller, unscheduled, sb_late, PULSE_WIDTH_TICKS>>

\* the timer interrupt hands the due fire_pulse to its dispatcher, which
\* frees the message slot and calls the task with the scheduled instant
FirePulseDispatch ==
    /\ FireReady
    /\ fp_now' = tq[1].at
    /\ tq' = None
    /\ fp_pc' = "fire"
    /\ pulse_timer' = "idle"
    /\ fp_log' = "none"
    /\ UNCHANGED <<tableVars, callVars, now, next_pulses, scheduled_pulse,
                   dma_pending, sb_pc, start, sb_next, sb_log, returned, caller, unscheduled, sb_late, PULSE_WIDTH_TICKS>>

\* the instants an unscheduled fire_pulse runs for: the present one, or the
\* one of the scheduled fire_pulse, which then runs a second time
UnscheduledInstants == {now} \cup (IF tq = None THEN {} ELSE {tq[1].at})

\* a fire_pulse that runs for an instant the schedule in force did not
\* produce: the case the warnings of fire_pulse and swap_buffers are written
\* for. The scheduled fire_pulse, if any, stays in the timer queue
FirePulseUnscheduled ==
    /\ unscheduled < MaxUnscheduled
    /\ unscheduled' = unscheduled + 1
    /\ fp_pc = "idle"
    /\ PRIO_FIRE_PULSE > running_priority
    /\ fp_now' \in UnscheduledInstants
    /\ fp_pc' = "fire"
    /\ pulse_timer' = "idle"
    /\ fp_log' = "none"
    /\ UNCHANGED <<tableVars, callVars, now, next_pulses, scheduled_pulse, tq,
                   dma_pending, sb_pc, start, sb_next, sb_log, returned, caller,
                   sb_late, PULSE_WIDTH_TICKS>>

\* fire_pulse: load the pulse width and fire the timer
FirePulseFire ==
    /\ fp_pc = "fire"
    /\ pulse_timer' = "fired"
    /\ fp_pc' = "consume"
    /\ UNCHANGED <<tableVars, callVars, now, next_pulses, scheduled_pulse, tq,
                   dma_pending, sb_pc, start, sb_next, fp_now, fp_log, sb_log,
                   returned, caller, unscheduled, sb_late, PULSE_WIDTH_TICKS>>

\* fire_pulse: consume this pulse; warn and return when it is not there
FirePulseConsume ==
    /\ fp_pc = "consume"
    /\ LET r == try_consume_pulse(pulses, fp_now)
       IN  /\ pulses' = r.pulses
           /\ IF r.ret = "Err"
              THEN fp_pc' = "idle" /\ fp_now' = 0 /\ fp_log' = "not present"
              ELSE fp_pc' = "rearm" /\ UNCHANGED <<fp_now, fp_log>>
    /\ UNCHANGED <<holdoff_until, callVars, now, next_pulses, scheduled_pulse, tq,
                   dma_pending, sb_pc, start, sb_next, pulse_timer, sb_log,
                   returned, caller, unscheduled, sb_late, PULSE_WIDTH_TICKS>>

\* fire_pulse: reschedule ourselves for the next pulse
FirePulseRearm ==
    /\ fp_pc = "rearm"
    /\ LET r == next_pulse(pulses, holdoff_until, fp_now)
           sp == spawn_at(r.ret[1])
       IN  /\ pulses' = r.pulses
           /\ holdoff_until' = r.holdoff_until
           /\ returned' = r.ret
           /\ caller' = "fire_pulse"
           /\ IF r.ret = None
              THEN fp_log' = "none scheduled" /\ UNCHANGED <<tq, scheduled_pulse>>
              ELSE /\ tq' = sp.tq
                   /\ scheduled_pulse' = sp.handle
                   /\ fp_log' = IF sp.ok THEN "rearmed" ELSE "overrun"
    /\ fp_pc' = "idle"
    /\ fp_now' = 0
    /\ UNCHANGED <<callVars, now, next_pulses, dma_pending, sb_pc, start, sb_next,
                   pulse_timer, sb_log, unscheduled, sb_late, PULSE_WIDTH_TICKS>>

\* swap_buffers starts: the timestamp is taken first
SwapBuffersStart ==
    /\ SwapReady /\ ~FireReady
    /\ dma_pending' = FALSE
    /\ start' = now
    /\ sb_pc' = "lock"
    /\ UNCHANGED <<tableVars, callVars, now, next_pulses, scheduled_pulse, tq,
                   sb_next, fp_pc, fp_now, pulse_timer, fp_log, sb_log, returned, caller, unscheduled, sb_late, PULSE_WIDTH_TICKS>>

\* swap_buffers may take its next step
SwapBuffersRuns == fp_pc = "idle" /\ ~FireReady

\* phase 1: lock (pulses, scheduled_pulse)
SwapBuffersLock ==
    /\ sb_pc = "lock" /\ SwapBuffersRuns
    /\ sb_pc' = "replace"
    /\ UNCHANGED <<tableVars, callVars, now, next_pulses, scheduled_pulse, tq,
                   dma_pending, start, sb_next, fp_pc, fp_now, pulse_timer, fp_log,
                   sb_log, returned, caller, unscheduled, sb_late, PULSE_WIDTH_TICKS>>

\* phase 1, step 1: adjust pulses and swap
SwapBuffersReplace ==
    /\ sb_pc = "replace" /\ SwapBuffersRuns
    /\ pulses' = replace_with_adjusted(next_pulses, start)
    /\ sb_pc' = "next"
    /\ UNCHANGED <<holdoff_until, callVars, now, next_pulses, scheduled_pulse, tq,
                   dma_pending, start, sb_next, fp_pc, fp_now, pulse_timer, fp_log,
                   sb_log, returned, caller, unscheduled, sb_late, PULSE_WIDTH_TICKS>>

\* phase 1, step 2: compute next pulse
SwapBuffersNextPulse ==
    /\ sb_pc = "next" /\ SwapBuffersRuns
    /\ LET r == next_pulse(pulses, holdoff_until, start)
       IN  /\ pulses' = r.pulses
           /\ holdoff_until' = r.holdoff_until
           /\ sb_next' = r.ret
           /\ returned' = r.ret
           /\ caller' = "swap_buffers"
    /\ sb_pc' = "cancel"
    /\ UNCHANGED <<callVars, now, next_pulses, scheduled_pulse, tq, dma_pending,
                   start, fp_pc, fp_now, pulse_timer, fp_log, sb_log, unscheduled, sb_late, PULSE_WIDTH_TICKS>>

\* phase 1 without step 3
SwapBuffersNoCancel ==
    /\ sb_pc = "cancel" /\ SwapBuffersRuns
    /\ sb_log' = [cancel |-> "none", arm |-> "none"]
    /\ sb_pc' = "arm"
    /\ UNCHANGED <<tableVars, callVars, now, next_pulses, scheduled_pulse, tq,
                   dma_pending, start, sb_next, fp_pc, fp_now, pulse_timer, fp_log,
                   returned, caller, unscheduled, sb_late, PULSE_WIDTH_TICKS>>

\* phase 1, step 3: cancel existing scheduled next pulse
SwapBuffersCancel ==
    /\ sb_pc = "cancel" /\ SwapBuffersRuns
    /\ IF scheduled_pulse = None
       THEN /\ sb_log' = [cancel |-> "none", arm |-> "none"]
            /\ UNCHANGED <<scheduled_pulse, tq>>
       ELSE /\ scheduled_pulse' = None
            /\ IF tq # None /\ tq[1].marker = scheduled_pulse[1]
               THEN tq' = None /\ sb_log' = [cancel |-> "ok", arm |-> "none"]
               ELSE UNCHANGED tq /\ sb_log' = [cancel |-> "failed", arm |-> "none"]
    /\ sb_pc' = "arm"
    /\ UNCHANGED <<tableVars, callVars, now, next_pulses, dma_pending, start,
                   sb_next, fp_pc, fp_now, pulse_timer, fp_log, returned, caller, unscheduled, sb_late, PULSE_WIDTH_TICKS>>

\* phase 1, step 4: schedule task for next pulse; the lock is released
SwapBuffersArm ==
    /\ sb_pc = "arm" /\ SwapBuffersRuns
    /\ IF sb_next = None
       THEN UNCHANGED <<tq, scheduled_pulse, sb_log>>
       ELSE LET sp == spawn_at(sb_next[1])
            IN  /\ tq' = sp.tq
                /\ scheduled_pulse' = sp.handle
                /\ sb_log' = [sb_log EXCEPT !.arm = IF sp.ok THEN "ok" ELSE "overrun"]
    /\ sb_pc' = "controls"
    /\ sb_next' = None
    /\ UNCHANGED <<tableVars, callVars, now, next_pulses, dma_pending, start,
                   fp_pc, fp_now, pulse_timer, fp_log, returned, caller, unscheduled, sb_late, PULSE_WIDTH_TICKS>>

\* config::pulse::DURATION_RANGE, in ticks of the pulse timer
DURATION_RANGE_START == 2
DURATION_RANGE_END == 5

\* the samples of the pulse-width control: lowest and highest
WidthSamples == { 0, 2 ^ RESOLUTION_BITS - 1 }

\* a value picked from 0 .. range.end by the sample, whatever the start
to_value_below_end_via(sample, range_start, range_end) ==
    LET scaling_factor == (sample * 2 ^ (FactorBits - RESOLUTION_BITS)) % (U16_MAX + 1)
    IN  scale_by(range_end, scaling_factor)

\* control::Sample::to_value_in_range_via(range, |d| d.ticks(), from_ticks)
to_value_in_range_via(sample, range_start, range_end) ==
    LET scaling_factor == (sample * 2 ^ (FactorBits - RESOLUTION_BITS)) % (U16_MAX + 1)
        base == range_start
        size == range_end - range_start
    IN  base + scale_by(size, scaling_factor)

\* phase 2: read the controls and store the pulse width
SwapBuffersControls ==
    /\ sb_pc = "controls" /\ SwapBuffersRuns
    /\ \E sample \in WidthSamples :
          PULSE_WIDTH_TICKS' =
              to_value_in_range_via(sample, DURATION_RANGE_START, DURATION_RANGE_END)
    /\ sb_pc' = "process"
    /\ UNCHANGED <<tableVars, callVars, now, next_pulses, scheduled_pulse, tq,
                   dma_pending, start, sb_next, fp_pc, fp_now, pulse_timer, fp_log,
                   sb_log, returned, caller, unscheduled, sb_late>>

\* a phase 3 that gives up the live schedule when processing was late
SwapBuffersProcessResets ==
    /\ sb_pc = "process" /\ SwapBuffersRuns
    /\ next_pulses' \in UnadjustedPulses
    /\ sb_late' = dma_pending
    /\ IF dma_pending
       THEN pulses' = << >> /\ tq' = None /\ scheduled_pulse' = None
       ELSE UNCHANGED <<pulses, tq, scheduled_pulse>>
    /\ sb_pc' = "idle"
    /\ start' = 0
    /\ UNCHANGED <<holdoff_until, callVars, now, dma_pending,
                   sb_next, fp_pc, fp_now, pulse_timer, fp_log, sb_log,
                   returned, caller, unscheduled, PULSE_WIDTH_TICKS>>

\* phase 3: process the ADC buffer; schedule_pulses writes the staged table
\* from the peaks found, whatever they are. peek answers Err, and the task
\* warns, when the DMA completed the next transfer while the buffer was read
SwapBuffersProcess ==
    /\ sb_pc = "process" /\ SwapBuffersRuns
    /\ next_pulses' \in UnadjustedPulses
    /\ sb_late' = dma_pending
    /\ sb_pc' = "idle"
    /\ start' = 0
    /\ UNCHANGED <<tableVars, callVars, now, scheduled_pulse, tq, dma_pending,
                   sb_next, fp_pc, fp_now, pulse_timer, fp_log, sb_log,
                   returned, caller, unscheduled, PULSE_WIDTH_TICKS>>

\* init: Pulses::new(at), whatever the instant at; no handle, nothing staged
Init ==
    /\ pulses = << >>
    /\ holdoff_until \in Instant
    /\ op = "new" /\ arg = 0 /\ ret = None /\ again = FALSE
    /\ InitTasks

Next ==
    \/ Tick
    \/ FirePulseDispatch
    \/ FirePulseFire
    \/ FirePulseConsume
    \/ FirePulseRearm
    \/ SwapBuffersStart
    \/ SwapBuffersLock
    \/ SwapBuffersReplace
    \/ SwapBuffersNextPulse
    \/ SwapBuffersCancel
    \/ SwapBuffersArm
    \/ SwapBuffersControls
    \/ SwapBuffersProcess

Spec == Init /\ [][Next]_vars

\* the tasks, with fire_pulse also run for instants that were not scheduled
NextRace ==
    \/ Next
    \/ FirePulseUnscheduled

SpecRace == Init /\ [][NextRace]_vars

\* ------------------------------------------------- claims on the pulse table

\* the pulses of table ps that are scheduled for instant at
Matching(ps, at) == { i \in 1 .. Len(ps) : ps[i].next = at }
\* the wrapping offset of instant t from instant after
OffsetFrom(t, after) == (t - after) % TickRange

\* C1: try_consume_pulse(at) adds one own period (wrapping) to `next` of
\* exactly the pulses with next = at, leaves every other next, every period,
\* the length and order of the table and holdoff_until as they were, answers
\* Ok when a pulse matched and Err otherwise, and changes nothing on Err.
C1_ConsumeAdvancesMatching ==
    [][ op' = "try_consume_pulse" =>
          /\ Len(pulses') = Len(pulses)
          /\ \A i \in 1 .. Len(pulses) :
                /\ pulses'[i].period = pulses[i].period
                /\ pulses'[i].next =
                      IF i \in Matching(pulses, arg')
                      THEN (pulses[i].next + pulses[i].period) % TickRange
                      ELSE pulses[i].next
          /\ holdoff_until' = holdoff_until
          /\ ret' = (IF Matching(pulses, arg') # {} THEN "Ok" ELSE "Err")
          /\ (ret' = "Err" => pulses' = pulses) ]_vars

\* C1 witness: a consume that advanced the first pulse across the counter
\* wrap and left the second, scheduled for another instant, alone
C1_Witness ==
    /\ op = "try_consume_pulse" /\ ret = "Ok" /\ Len(pulses) = 2
    /\ pulses[1].next = (arg + pulses[1].period) % TickRange
    /\ pulses[1].next < arg
    /\ pulses[2].next # (arg + pulses[2].period) % TickRange

\* C2: after try_consume_pulse(at) answered Ok, the same call again answers
\* Err and changes no pulse.
C2_ConsumeOnce ==
    [][ (op' = "try_consume_pulse" /\ again') =>
          (ret' = "Err" /\ pulses' = pulses /\ holdoff_until' = holdoff_until) ]_vars

\* C2 witness: the second consume of an instant answered Err, on a table
\* whose two pulses both stand one own period after that instant
C2_Witness ==
    /\ op = "try_consume_pulse" /\ again /\ ret = "Err" /\ Len(pulses) = 2
    /\ \A i \in 1 .. 2 : pulses[i].next = (arg + pulses[i].period) % TickRange

\* C3: on a non-empty table next_pulse(after) returns the `next` (after the
\* holdoff rescheduling) of some pulse of the table, and no pulse of the
\* table has a smaller wrapping offset from `after`; on an empty table it
\* returns none.
C3_NextPulseSoonest ==
    [][ op' = "next_pulse" =>
          IF Len(pulses) = 0
          THEN ret' = None
          ELSE /\ \E i \in 1 .. Len(pulses') : ret' = Some(pulses'[i].next)
               /\ \A j \in 1 .. Len(pulses') :
                     OffsetFrom(pulses'[j].next, arg') >= OffsetFrom(ret'[1], arg') ]_vars

\* pulse i of table ps lies just past the counter wrap that `after` is about
\* to reach, and no pulse of ps is nearer to `after`
StraddlesWrap(ps, i, after) ==
    /\ ps[i].next < after
    /\ OffsetFrom(ps[i].next, after) < HalfRange
    /\ \A j \in 1 .. Len(ps) :
          OffsetFrom(ps[j].next, after) >= OffsetFrom(ps[i].next, after)

\* C4 as claimed: a pulse just past the wrap is reported by next_pulse at its
\* small positive wrapping offset, ahead of the pulses further in the future.
C4_WrapAsClaimed ==
    [][ op' = "next_pulse" =>
          \A i \in 1 .. Len(pulses) :
             StraddlesWrap(pulses, i, arg') =>
                (ret' = Some(pulses[i].next) /\ pulses'[i] = pulses[i]) ]_vars

\* C4 as amended: the same, for a pulse whose wrapping offset is not below
\* the holdoff in force for the call.
C4_WrapBeyondHoldoff ==
    [][ op' = "next_pulse" =>
          \A i \in 1 .. Len(pulses) :
             ( /\ StraddlesWrap(pulses, i, arg')
               /\ OffsetFrom(pulses[i].next, arg') >= holdoff_of(holdoff_until, arg') ) =>
                (ret' = Some(pulses[i].next) /\ pulses'[i] = pulses[i]) ]_vars

\* C4 witness: next_pulse was asked before the wrap and returned an instant
\* after it, that of the first pulse, ahead of a second pulse further away
C4_Witness ==
    /\ op = "next_pulse" /\ Len(pulses) = 2
    /\ ret = Some(pulses[1].next) /\ ret[1] < arg
    /\ OffsetFrom(ret[1], arg) < HalfRange
    /\ OffsetFrom(pulses[2].next, arg) > OffsetFrom(ret[1], arg)
    /\ OffsetFrom(pulses[2].next, arg) < HalfRange
    /\ pulses[2].next < arg

\* ------------------------------------------------------ claims on the tasks

\* the step is a call of next_pulse by fire_pulse
FireCalls == fp_pc = "rearm" /\ fp_pc' = "idle"
\* the step is a call of next_pulse by swap_buffers
AcquireCalls == sb_pc = "next" /\ sb_pc' = "cancel"

\* C5 as claimed: the instants two consecutive calls of next_pulse return,
\* from fire_pulse or from swap_buffers, are never closer together than
\* MIN_HOLDOFF.
C5_SpacingAsClaimed ==
    [][ ((FireCalls \/ AcquireCalls) /\ returned # None /\ returned' # None) =>
          OffsetFrom(returned'[1], returned[1]) >= MIN_HOLDOFF ]_vars

\* C5 as amended: the instant next_pulse returns is at least MIN_HOLDOFF after
\* the `after` of the call and, when holdoff_until lay ahead of `after`, not
\* before holdoff_until. fire_pulse calls with the instant the call before
\* returned, so its instant is at least MIN_HOLDOFF after that one; the
\* instant of swap_buffers is at least as far after the one returned before
\* as holdoff_until was.
C5_SpacingFromAfter ==
    [][ /\ (FireCalls /\ returned' # None) =>
              /\ returned = Some(fp_now)
              /\ OffsetFrom(returned'[1], returned[1]) >= MIN_HOLDOFF
        /\ (AcquireCalls /\ returned' # None) =>
              /\ OffsetFrom(returned'[1], start) >= MIN_HOLDOFF
              /\ (returned # None /\ OffsetFrom(holdoff_until, start) < HalfRange) =>
                    OffsetFrom(returned'[1], returned[1])
                       >= OffsetFrom(holdoff_until, returned[1]) ]_vars

\* C5 witness: fire_pulse has re-armed itself on a table of two pulses whose
\* period is below MIN_HOLDOFF, so that their next-fire times without the
\* holdoff are closer together than MIN_HOLDOFF
C5_Witness ==
    /\ caller = "fire_pulse" /\ fp_log = "rearmed" /\ fp_pc = "idle"
    /\ Len(pulses) = 2
    /\ \A i \in 1 .. 2 : pulses[i].period < MIN_HOLDOFF
    /\ returned # None /\ tq # None /\ tq[1].at = returned[1]

C7_AcquireRestores ==
    /\ [](sb_pc = "arm" => (scheduled_pulse = None /\ tq = None))
    /\ [][ (sb_pc = "arm" /\ sb_pc' = "controls") =>
             IF pulses = << >>
             THEN tq' = None /\ scheduled_pulse' = None
             ELSE /\ caller = "swap_buffers" /\ returned = sb_next /\ returned # None
                  /\ tq' # None /\ tq'[1].at = returned[1]
                  /\ scheduled_pulse' = Some(tq'[1].marker) ]_vars

\* C7 witness: swap_buffers has released the lock with a fire_pulse scheduled
\* after its cancel failed on a stale handle
C7_Witness ==
    /\ sb_pc = "controls"
    /\ sb_log = [cancel |-> "failed", arm |-> "ok"]
    /\ tq # None /\ scheduled_pulse = Some(tq[1].marker)

\* C8: the live table, holdoff_until and the handle change only inside the
\* critical section of fire_pulse or of swap_buffers, and the two sections
\* never overlap: swap_buffers does not move while fire_pulse runs, and
\* fire_pulse does not start between the lock and the re-arm of swap_buffers.
C8_CriticalSections ==
    /\ [](~(InCritical /\ fp_pc # "idle"))
    /\ [][ (pulses' # pulses \/ holdoff_until' # holdoff_until
              \/ scheduled_pulse' # scheduled_pulse) =>
             (InCritical \/ fp_pc # "idle") ]_vars
    /\ [][ fp_pc # "idle" => sb_pc' = sb_pc ]_vars
    /\ [][ (InCritical /\ InCritical') => fp_pc' = "idle" ]_vars

\* C8 witness: the scheduled fire_pulse is due while swap_buffers is between
\* its swap and its re-arm, and has not started
C8_Witness ==
    /\ sb_pc = "next" /\ fp_pc = "idle"
    /\ tq # None /\ tq[1].at = now

\* the scheduled fire_pulse is due and has not started
FireDue == tq # None /\ Due(tq[1].at) /\ fp_pc = "idle"

\* C9 as claimed, the part on swap_buffers: the swap has priority over the
\* processing, so a DMA request that arrives while a buffer is processed
\* starts the swap at once.
C9_AcquirePreemptsProcess ==
    [][ (dma_pending /\ sb_pc \in {"controls", "process"} /\ ~FireDue /\ fp_pc = "idle") =>
          sb_pc' = "lock" ]_vars

\* C9 as amended: fire_pulse has a priority above the timer interrupt and
\* above swap_buffers, which both swaps and processes; the processing holds no
\* lock; a fire_pulse due while swap_buffers runs outside its critical section
\* starts at once, before time passes or swap_buffers moves; while fire_pulse
\* runs nothing else moves; a fire_pulse due inside the critical section
\* starts when the section ends, before a second one begins.
C9_FirePreempts ==
    /\ [](PRIO_FIRE_PULSE > PRIO_MONO /\ PRIO_MONO > PRIO_SWAP_BUFFERS)
    /\ []((sb_pc \in {"controls", "process"} /\ fp_pc = "idle") =>
             (~InCritical /\ running_priority < PRIO_MONO))
    /\ [][ (FireDue /\ ~InCritical) => fp_pc' = "fire" ]_vars
    /\ [][ fp_pc # "idle" => (sb_pc' = sb_pc /\ now' = now /\ dma_pending' = dma_pending) ]_vars
    /\ [][ (FireDue /\ InCritical) => (InCritical' \/ sb_pc' = "controls") ]_vars

\* C9 witness: fire_pulse runs at the instant it was scheduled for, while the
\* processing of a buffer is under way
C9_Witness ==
    /\ fp_pc = "fire" /\ sb_pc = "process" /\ fp_now = now

\* C10: next_pulse on an empty live table returns None and leaves the table
\* and holdoff_until as they were; swap_buffers that swapped in an empty table
\* releases the lock with no fire_pulse scheduled and no handle held, and
\* while the live table is empty nothing is scheduled.
C10_EmptyTable ==
    /\ [][ (AcquireCalls /\ pulses = << >>) =>
             (sb_next' = None /\ pulses' = pulses /\ holdoff_until' = holdoff_until) ]_vars
    /\ [][ (sb_pc = "arm" /\ sb_pc' = "controls" /\ pulses = << >>) =>
             (tq' = None /\ scheduled_pulse' = None) ]_vars
    /\ []((pulses = << >> /\ ~InCritical) => (tq = None /\ fp_pc = "idle"))

\* C10 witness: swap_buffers has swapped in an empty table, cancelled the
\* fire_pulse that was scheduled and released the lock with nothing scheduled
C10_Witness ==
    /\ sb_pc = "controls" /\ pulses = << >>
    /\ sb_log = [cancel |-> "ok", arm |-> "none"]
    /\ tq = None /\ scheduled_pulse = None

\* phase 3 of swap_buffers ends with this step
ProcessEnds == sb_pc = "process" /\ sb_pc' = "idle"

\* C11: when the processing ends after the DMA has completed the next
\* transfer, swap_buffers warns and nothing else: the live table,
\* holdoff_until, the scheduled fire_pulse and the handle are as they were,
\* the staged table is a whole table and changes nowhere but at the end of a
\* processing, swap_buffers starts again at once, and its swap makes the whole
\* staged table live, adjusted by the new start.
C11_OverrunWarnsOnly ==
    /\ [][ ProcessEnds =>
             /\ sb_late' = dma_pending
             /\ next_pulses' \in UnadjustedPulses
             /\ UNCHANGED <<pulses, holdoff_until, tq, scheduled_pulse, dma_pending>> ]_vars
    /\ [][ next_pulses' # next_pulses => ProcessEnds ]_vars
    /\ [][ (sb_pc = "idle" /\ dma_pending /\ fp_pc = "idle" /\ ~FireDue) =>
             sb_pc' = "lock" ]_vars
    /\ [][ (sb_pc = "replace" /\ sb_pc' = "next") =>
             /\ Len(pulses') = Len(next_pulses)
             /\ \A i \in 1 .. Len(next_pulses) :
                   /\ pulses'[i].period = next_pulses[i].period
                   /\ pulses'[i].next = (start + next_pulses[i].next) % TickRange ]_vars

\* C11 witness: the swap_buffers that followed a late processing has swapped
\* in the two pulses staged by it and scheduled a fire_pulse
C11_Witness ==
    /\ sb_late /\ sb_pc = "controls"
    /\ Len(next_pulses) = 2 /\ Len(pulses) = 2
    /\ sb_log.arm = "ok" /\ tq # None

\* ------------------------------------------------------ fft/analysis.rs

\* the number of bins of the spectrum (config::fft::BUF_LEN_COMPLEX_REAL)
BUF_LEN_COMPLEX_REAL == 6
\* config::fft::analysis::NOISE_FLOOR_AMPLITUDE, on the scale of BinValues
NOISE_FLOOR_AMPLITUDE == 4
\* config::fft::FREQ_RESOLUTION_X1000: a bin is 10.5 Hz wide
FREQ_RESOLUTION_X1000 == 10500
\* config::fft::analysis::MIN_FREQ, in Hz
MIN_FREQ == 0
\* config::fft::analysis::NIGHTCORE, a ScalingFactor<u16>
NIGHTCORE == 0

\* the width given to usize (32 bits on the target): wide enough for every
\* value below to wrap as it does there
UsizeBits == 24

\* config::fft::MAX_FREQ
MAX_FREQ == (FREQ_RESOLUTION_X1000 * BUF_LEN_COMPLEX_REAL) \div 1000
\* the capacity of scratch_peaks
MAX_SCRATCH_PEAKS == BUF_LEN_COMPLEX_REAL \div 2
\* the capacity of peaks_out
MAX_PEAKS == MaxPulses

FIRST_NON_DC_BIN == 1

Complex(re, im) == [re |-> re, im |-> im]

\* the values a bin takes: magnitudes 0, 2, 4 (of 16), 4 (of 18), 10 and 13
BinValues == { Complex(0, 0), Complex(2, 0), Complex(4, 0), Complex(3, 3),
               Complex(6, 8), Complex(12, 5) }

Spectra == [0 .. BUF_LEN_COMPLEX_REAL - 1 -> BinValues]

\* the samples of the sensitivity control: lowest, middle and highest
ControlSamples == { 0, 2 ^ (RESOLUTION_BITS - 1), 2 ^ RESOLUTION_BITS - 1 }

amplitude_squared(x) == x.re * x.re + x.im * x.im

\* Truncate::truncate of a release build (`self as u16`)
truncate(x) == x % (U16_MAX + 1)

\* FixedSqrt::sqrt of a U32F0: the integer square root
sqrt(x) == CHOOSE r \in 0 .. x : r * r <= x /\ (r + 1) * (r + 1) > x

amplitude_sqrt(x) == truncate(sqrt(x))

\* DivRound::div_round
div_round(x, by) ==
    LET round == by \div 2
    IN  IF x >= 0 THEN (x + round) \div by ELSE -((round - x) \div by)

\* ScalingFactor::from_sample::<BITS>
from_sample(sample) == (sample * 2 ^ (FactorBits - RESOLUTION_BITS)) % (U16_MAX + 1)

\* a value picked from 0 .. range.end, whatever the start of the range
to_value_from_zero(value, range_start, range_end) == scale_by(range_end, value)

\* control::Sample::to_value_in_range(range.start .. range.end)
to_value_in_range(value, range_start, range_end) ==
    LET base == range_start
        size == range_end - range_start
    IN  base + scale_by(size, value)

\* ScratchPeak::new
ScratchPeak(center) == [center |-> IF truncate(center) = 0 THEN None ELSE Some(truncate(center))]

\* a peak that stays available after it was selected
consume_nothing(peak) == peak

\* ScratchPeak::consume
consume(peak) == [peak EXCEPT !.center = None]

\* an ascent that stops at the first bin of a plateau
RECURSIVE ascend_strictly(_, _)
ascend_strictly(bins, i) ==
    IF i + 1 >= BUF_LEN_COMPLEX_REAL THEN i
    ELSE IF amplitude_squared(bins[i + 1]) <= amplitude_squared(bins[i]) THEN i
    ELSE ascend_strictly(bins, i + 1)

\* phase 1, step 1: ascend to peak
RECURSIVE ascend(_, _)
ascend(bins, i) ==
    IF i + 1 >= BUF_LEN_COMPLEX_REAL THEN i
    ELSE IF amplitude_squared(bins[i + 1]) < amplitude_squared(bins[i]) THEN i
    ELSE ascend(bins, i + 1)

\* a ridge that ends at its centre
no_descent(bins, i) == i

\* phase 1, step 2: descend to trough
RECURSIVE descend(_, _)
descend(bins, i) ==
    IF i + 1 >= BUF_LEN_COMPLEX_REAL THEN i
    ELSE IF amplitude_squared(bins[i + 1]) > amplitude_squared(bins[i]) THEN i
    ELSE descend(bins, i + 1)

\* phase 1: [peaks, fault], fault when a push found scratch_peaks full
RECURSIVE find_scratch_peaks(_, _, _)
find_scratch_peaks(bins, left, scratch_peaks) ==
    IF left + 1 >= BUF_LEN_COMPLEX_REAL
    THEN [peaks |-> scratch_peaks, fault |-> FALSE]
    ELSE LET center == ascend(bins, left)
             right == descend(bins, center)
         IN  IF Len(scratch_peaks) >= MAX_SCRATCH_PEAKS
             THEN [peaks |-> scratch_peaks, fault |-> TRUE]
             ELSE find_scratch_peaks(bins, right, Append(scratch_peaks, ScratchPeak(center)))

\* a scan in which the peak met last wins a tie
RECURSIVE highest_peak_last_wins(_, _, _, _)
highest_peak_last_wins(bins, scratch_peaks, k, max) ==
    IF k > Len(scratch_peaks) THEN max
    ELSE LET peak == scratch_peaks[k]
         IN  IF peak.center = None THEN highest_peak_last_wins(bins, scratch_peaks, k + 1, max)
             ELSE LET i == peak.center[1]
                      a == amplitude_squared(bins[i])
                  IN  IF a >= max.amplitude_squared
                      THEN highest_peak_last_wins(bins, scratch_peaks, k + 1,
                                                  [k |-> k, i |-> i, amplitude_squared |-> a])
                      ELSE highest_peak_last_wins(bins, scratch_peaks, k + 1, max)

\* a scan that stays with the first peak of scratch_peaks
first_peak(bins, scratch_peaks, k, max) == max

\* phase 2, step 1, the scan of the peaks after the first: [k, i, amplitude_squared],
\* k the place of the highest peak in scratch_peaks
RECURSIVE highest_peak(_, _, _, _)
highest_peak(bins, scratch_peaks, k, max) ==
    IF k > Len(scratch_peaks) THEN max
    ELSE LET peak == scratch_peaks[k]
         IN  IF peak.center = None THEN highest_peak(bins, scratch_peaks, k + 1, max)
             ELSE LET i == peak.center[1]
                      a == amplitude_squared(bins[i])
                  IN  IF a > max.amplitude_squared
                      THEN highest_peak(bins, scratch_peaks, k + 1,
                                        [k |-> k, i |-> i, amplitude_squared |-> a])
                      ELSE highest_peak(bins, scratch_peaks, k + 1, max)

\* phase 2, step 7: [freq, wrapped], freq = None when the frequency is not valid;
\* wrapped when a subtraction or an addition left its type (a release build
\* wraps, a debug build panics)
refine_freq(bins, max_peak_i, max_amplitude) ==
    LET center0 == max_amplitude
        side(i) == IF i \in DOMAIN bins THEN amplitude_sqrt(amplitude_squared(bins[i]))
                   ELSE center0
        \* steps 6.5 (from div_round on) to 6.7, on the frequency of step 6.5
        valid(exact_x1000) ==
            LET real_freq_x1000 == exact_x1000 % (2 ^ UsizeBits)
                rounded == div_round(real_freq_x1000, 1000)
                real_freq == truncate(rounded)
                sum == real_freq + scale_by(real_freq, NIGHTCORE)
                nightcore == sum % (U16_MAX + 1)
                wrapped == exact_x1000 # real_freq_x1000 \/ rounded # real_freq
                           \/ sum # nightcore
            IN  [freq |-> IF nightcore > MAX_FREQ \/ nightcore = 0 THEN None
                          ELSE Some(nightcore),
                 wrapped |-> wrapped]
        \* steps 6.2 to 6.5, on sides[0] and sides[1]
        adjust(sides0, sides1) ==
            LET is_positive == sides0 < sides1
                small_side == IF is_positive THEN sides0 ELSE sides1
                large_side0 == IF is_positive THEN sides1 ELSE sides0
                offset == 1
                center == (center0 - small_side) + offset
                large_side == (large_side0 - small_side) + offset
                adjustment_x1000 == ((large_side * FREQ_RESOLUTION_X1000) \div center) \div 2
                center_freq_x1000 == max_peak_i * FREQ_RESOLUTION_X1000
            IN  valid(IF is_positive THEN center_freq_x1000 + adjustment_x1000
                      ELSE center_freq_x1000 - adjustment_x1000)
    IN  adjust(side(max_peak_i - 1), side(max_peak_i + 1))

\* Peak::from_bin_and_freq; `i` is the bin the peak was read off (not a field of Peak)
Peak(bins, i, freq) ==
    [amplitude |-> amplitude_sqrt(amplitude_squared(bins[i])), freq |-> freq, i |-> i]

\* phase 2, step 3: the highest bin that is culled for its frequency
min_freq_bin == div_round(MIN_FREQ * 1000, FREQ_RESOLUTION_X1000)

\* a selection that culls nothing for its amplitude
never_below_noise_floor(max_amplitude) == FALSE

\* phase 2, step 5: cull peaks below noise floor
below_noise_floor(max_amplitude) == max_amplitude < NOISE_FLOOR_AMPLITUDE

\* phase 2: one turn of the loop per slot of peaks_out.
\* st = [scratch_peaks, peaks_out, absolute_highest_amplitude, fault, wrapped,
\* selected]; `selected` lists max_peak_i of every turn (not a value of the code)
RECURSIVE select_peaks(_, _, _, _)
select_peaks(bins, amplitude_threshold, st, slots) ==
    IF slots = 0 \/ st.scratch_peaks = << >> THEN st
    ELSE
    LET first == st.scratch_peaks[1]
        max0 == IF first.center = None
                THEN [k |-> 1, i |-> 0, amplitude_squared |-> 0]
                ELSE [k |-> 1, i |-> first.center[1],
                      amplitude_squared |-> amplitude_squared(bins[first.center[1]])]
        \* steps 7 (validity) and 8, on the table after step 6 and the result r of step 7
        store(accepted, max_peak_i, r) ==
            IF r.freq = None
            THEN select_peaks(bins, amplitude_threshold,
                              [accepted EXCEPT !.wrapped = @ \/ r.wrapped], slots - 1)
            ELSE IF Len(st.peaks_out) >= MAX_PEAKS
            THEN [accepted EXCEPT !.wrapped = @ \/ r.wrapped, !.fault = TRUE]
            ELSE select_peaks(bins, amplitude_threshold,
                              [accepted EXCEPT !.wrapped = @ \/ r.wrapped,
                                               !.peaks_out = Append(@, Peak(bins, max_peak_i,
                                                                            r.freq[1]))],
                              slots - 1)
        \* steps 3 to 7, on the table after step 2
        cull(consumed, max_peak_i, max_amplitude) ==
            IF max_peak_i <= min_freq_bin
            THEN select_peaks(bins, amplitude_threshold, consumed, slots - 1)
            ELSE IF below_noise_floor(max_amplitude) THEN consumed
            ELSE IF st.absolute_highest_amplitude = None
            THEN store([consumed EXCEPT !.absolute_highest_amplitude = Some(max_amplitude)],
                       max_peak_i, refine_freq(bins, max_peak_i, max_amplitude))
            ELSE IF max_amplitude < to_value_in_range(amplitude_threshold,
                                                      NOISE_FLOOR_AMPLITUDE,
                                                      st.absolute_highest_amplitude[1])
            THEN consumed
            ELSE store(consumed, max_peak_i, refine_freq(bins, max_peak_i, max_amplitude))
        \* step 2 and step 4, on the highest peak of step 1
        take(max) ==
            cull([st EXCEPT !.scratch_peaks[max.k] = consume(@),
                            !.selected = Append(@, max.i)],
                 max.i, amplitude_sqrt(max.amplitude_squared))
    IN  take(highest_peak(bins, st.scratch_peaks, 2, max0))

\* heapless::Vec::clear
clear(vec) == << >>

\* find_peaks(bins, scratch_peaks, amplitude_threshold, peaks_out); `found`
\* is scratch_peaks as phase 1 left it
find_peaks(bins, scratch_peaks, amplitude_threshold, peaks_out) ==
    LET out(phase1, phase2) ==
            [scratch_peaks |-> phase2.scratch_peaks, peaks_out |-> phase2.peaks_out,
             absolute_highest_amplitude |-> phase2.absolute_highest_amplitude,
             fault |-> phase2.fault, wrapped |-> phase2.wrapped,
             selected |-> phase2.selected, found |-> phase1.peaks]
        extract(phase1, st) ==
            out(phase1, IF phase1.fault THEN st
                        ELSE select_peaks(bins, amplitude_threshold, st, MAX_PEAKS))
        extract_from(phase1) ==
            extract(phase1,
                    [scratch_peaks |-> phase1.peaks, peaks_out |-> clear(peaks_out),
                     absolute_highest_amplitude |-> None, fault |-> phase1.fault,
                     wrapped |-> FALSE, selected |-> << >>])
    IN  extract_from(find_scratch_peaks(bins, FIRST_NON_DC_BIN, clear(scratch_peaks)))

\* a spectrum and a control sample, before find_peaks is applied
InitPeaks ==
    /\ pulses = << >>
    /\ holdoff_until = 0
    /\ op = "input"
    /\ arg \in [bins : Spectra, amplitude_threshold : ControlSamples]
    /\ ret = None
    /\ again = FALSE
    /\ InitTasks

\* the first run, on vectors just made (Vec::new)
FindPeaks ==
    /\ op = "input"
    /\ op' = "find_peaks"
    /\ ret' = find_peaks(arg.bins, << >>, from_sample(arg.amplitude_threshold), << >>)
    /\ UNCHANGED <<arg, again, tableVars, taskVars>>

\* a second run on the same spectrum and control sample, on the vectors that
\* the first run left
FindPeaksAgain ==
    /\ op = "find_peaks" /\ ~again
    /\ again' = TRUE
    /\ ret' = find_peaks(arg.bins, ret.scratch_peaks, from_sample(arg.amplitude_threshold),
                         ret.peaks_out)
    /\ UNCHANGED <<op, arg, tableVars, taskVars>>

NextPeaks ==
    \/ FindPeaks
    \/ FindPeaksAgain

SpecPeaks == InitPeaks /\ [][NextPeaks]_vars

\* ------------------------------------------------------ claims on find_peaks

Magnitude(x) == amplitude_sqrt(amplitude_squared(x))

\* bin k is far above the noise floor and every other bin is zero
OneSpike(bins, k) ==
    /\ Magnitude(bins[k]) > 2 * NOISE_FLOOR_AMPLITUDE
    /\ \A j \in DOMAIN bins : j # k => bins[j] = Complex(0, 0)

AllBelowFloor(bins) == \A j \in DOMAIN bins : Magnitude(bins[j]) < NOISE_FLOOR_AMPLITUDE

\* C12 as claimed: a spectrum with one bin far above the noise floor and every
\* other bin zero gives exactly one Peak, the one at that bin; a spectrum with
\* every bin below the noise floor gives no Peak, whatever the control sample
C12_CullingAsClaimed ==
    op = "find_peaks" =>
        /\ \A k \in DOMAIN arg.bins :
              OneSpike(arg.bins, k) =>
                  /\ Len(ret.peaks_out) = 1
                  /\ ret.peaks_out[1].i = k
        /\ AllBelowFloor(arg.bins) => ret.peaks_out = << >>

\* C12, amended: the one bin far above the noise floor gives exactly one Peak
\* when it lies above the minimum-frequency bin (so it is not the DC bin) and
\* its refined frequency is valid, and no Peak when it is the DC bin or at or
\* below the minimum-frequency bin; a spectrum with every bin below the noise
\* floor gives no Peak, whatever the control sample
C12_CullingAboveMinFreq ==
    op = "find_peaks" =>
        /\ \A k \in DOMAIN arg.bins :
              OneSpike(arg.bins, k) =>
                  IF k > min_freq_bin
                     /\ refine_freq(arg.bins, k, Magnitude(arg.bins[k])).freq # None
                  THEN /\ Len(ret.peaks_out) = 1
                       /\ ret.peaks_out[1].i = k
                       /\ ret.peaks_out[1].amplitude = Magnitude(arg.bins[k])
                  ELSE k <= min_freq_bin => ret.peaks_out = << >>
        /\ AllBelowFloor(arg.bins) => ret.peaks_out = << >>
        /\ ~ret.fault

\* a spike at the last bin has given its one Peak at the highest sensitivity
C12_Witness ==
    /\ op = "find_peaks"
    /\ OneSpike(arg.bins, BUF_LEN_COMPLEX_REAL - 1)
    /\ arg.amplitude_threshold = 2 ^ RESOLUTION_BITS - 1
    /\ Len(ret.peaks_out) = 1
    /\ ret.peaks_out[1].i = BUF_LEN_COMPLEX_REAL - 1

\* C13: the refined frequency of every stored Peak differs from the nominal
\* frequency of its bin (bin index x frequency resolution) by at most half of
\* one bin resolution
C13_RefinedWithinHalfBin ==
    op = "find_peaks" =>
        \A n \in 1 .. Len(ret.peaks_out) :
            LET p == ret.peaks_out[n]
                nominal_x1000 == p.i * FREQ_RESOLUTION_X1000
                d == p.freq * 1000 - nominal_x1000
            IN  2 * (IF d >= 0 THEN d ELSE -d) <= FREQ_RESOLUTION_X1000

\* the bins of the ridges that are not consumed before turn n of the selection
Unconsumed(n) ==
    { ret.found[k].center[1] : k \in 1 .. Len(ret.found) } \
        { ret.selected[m] : m \in 1 .. (n - 1) }

\* C14: when several unconsumed ridges share the maximal squared magnitude the
\* selection takes the one at the lowest bin, so Peaks of equal squared
\* magnitude are stored in increasing bin order, and a second run on the same
\* spectrum and control sample gives the same list of Peaks
C14_FirstWinsTies ==
    /\ [](op = "find_peaks" =>
            /\ \A n \in 1 .. Len(ret.selected) :
                  LET i == ret.selected[n]
                  IN  i # 0 =>
                         /\ i \in Unconsumed(n)
                         /\ \A j \in Unconsumed(n) :
                               LET a == amplitude_squared(arg.bins[j])
                                   m == amplitude_squared(arg.bins[i])
                               IN  a < m \/ (a = m /\ j >= i)
            /\ \A n, m \in 1 .. Len(ret.peaks_out) :
                  (n < m /\ amplitude_squared(arg.bins[ret.peaks_out[n].i])
                              = amplitude_squared(arg.bins[ret.peaks_out[m].i]))
                      => ret.peaks_out[n].i < ret.peaks_out[m].i)
    /\ [][ (op = "find_peaks" /\ again') => ret'.peaks_out = ret.peaks_out ]_vars

\* two ridges of the same value, at bins 2 and 4, have been stored in that
\* order, in the second run as in the first
C14_Witness ==
    /\ op = "find_peaks" /\ again
    /\ Len(ret.peaks_out) = 2
    /\ ret.peaks_out[1].i = 2 /\ ret.peaks_out[2].i = 4
    /\ arg.bins[2] = arg.bins[4]

\* control samples across the range of the ADC, the ends included, and the
\* next sample of the grid after c
ControlStep == 2 ^ (RESOLUTION_BITS - 4)

ControlGrid == { c * ControlStep : c \in 0 .. 15 } \cup { 2 ^ RESOLUTION_BITS - 1 }

NextControl(c) ==
    IF c + ControlStep \in ControlGrid THEN c + ControlStep ELSE 2 ^ RESOLUTION_BITS - 1

\* the threshold that control sample c gives when the highest peak has magnitude hi
ThresholdAt(c, hi) == to_value_in_range(from_sample(c), NOISE_FLOOR_AMPLITUDE, hi)

\* the turns of the selection whose peak was not culled for its frequency bin
Candidates == { n \in 1 .. Len(ret.selected) : ret.selected[n] > min_freq_bin }

\* the first of them: the turn of the first accepted peak, if it was accepted
FirstCandidate == CHOOSE n \in Candidates : \A m \in Candidates : n <= m

\* C15: the threshold is applied to the second and later accepted peaks only;
\* for every control sample it lies between the noise floor and the magnitude
\* of the highest peak, is the noise floor at control sample 0 and does not
\* decrease as the control sample grows; the selection stops at the first
\* peak below it, and every stored Peak is at or above the noise floor and
\* the threshold
C15_ThresholdInRange ==
    (op = "find_peaks" /\ Candidates # {}) =>
        LET n0 == FirstCandidate
            top == Magnitude(arg.bins[ret.selected[n0]])
            hi == ret.absolute_highest_amplitude
            thr == ThresholdAt(arg.amplitude_threshold, top)
            Below(n) == \/ Magnitude(arg.bins[ret.selected[n]]) < NOISE_FLOOR_AMPLITUDE
                        \/ n > n0 /\ Magnitude(arg.bins[ret.selected[n]]) < thr
            Stored(n) == \E k \in 1 .. Len(ret.peaks_out) : ret.peaks_out[k].i = ret.selected[n]
        IN  /\ hi = (IF top < NOISE_FLOOR_AMPLITUDE THEN None ELSE Some(top))
            /\ hi # None =>
                  /\ \A c \in ControlGrid :
                        /\ NOISE_FLOOR_AMPLITUDE <= ThresholdAt(c, top)
                        /\ ThresholdAt(c, top) <= top
                        /\ ThresholdAt(c, top) <= ThresholdAt(NextControl(c), top)
                  /\ ThresholdAt(0, top) = NOISE_FLOOR_AMPLITUDE
                  /\ Stored(n0) <=> refine_freq(arg.bins, ret.selected[n0], top).freq # None
            /\ \A n \in Candidates :
                  /\ Below(n) => (n = Len(ret.selected) /\ ~Stored(n))
                  /\ ~Below(n) =>
                        (Stored(n) <=>
                            refine_freq(arg.bins, ret.selected[n],
                                        Magnitude(arg.bins[ret.selected[n]])).freq # None)
            /\ \A k \in 1 .. Len(ret.peaks_out) :
                  /\ ret.peaks_out[k].amplitude >= NOISE_FLOOR_AMPLITUDE
                  /\ ret.peaks_out[k].amplitude >= thr

\* at the highest sensitivity sample a second ridge that is above the noise
\* floor and below the threshold has stopped the selection after one Peak
C15_Witness ==
    /\ op = "find_peaks"
    /\ arg.amplitude_threshold = 2 ^ RESOLUTION_BITS - 1
    /\ Len(ret.selected) = 2 /\ Len(ret.peaks_out) = 1
    /\ ret.selected[1] > min_freq_bin /\ ret.selected[2] > min_freq_bin
    /\ ret.peaks_out[1].i = ret.selected[1]
    /\ Magnitude(arg.bins[ret.selected[2]]) >= NOISE_FLOOR_AMPLITUDE
    /\ Magnitude(arg.bins[ret.selected[2]])
          < ThresholdAt(arg.amplitude_threshold, ret.absolute_highest_amplitude[1])
    /\ ThresholdAt(arg.amplitude_threshold, ret.absolute_highest_amplitude[1])
          > NOISE_FLOOR_AMPLITUDE

\* C16: find_peaks reaches neither capacity fault: the centres that ridge
\* detection records lie within 1 .. N-1 and each is at least two bins after
\* the one before, so there are at most floor(N/2) of them for N bins, which
\* scratch_peaks can hold, and the selection stores at most MAX_PEAKS Peaks
C16_NoCapacityFault ==
    op = "find_peaks" =>
        /\ ~ret.fault
        /\ \A k \in 1 .. Len(ret.found) :
              /\ ret.found[k].center # None
              /\ ret.found[k].center[1] \in FIRST_NON_DC_BIN .. BUF_LEN_COMPLEX_REAL - 1
              /\ k > 1 => ret.found[k].center[1] >= ret.found[k - 1].center[1] + 2
        /\ Len(ret.found) <= BUF_LEN_COMPLEX_REAL \div 2
        /\ Len(ret.found) <= MAX_SCRATCH_PEAKS
        /\ Len(ret.peaks_out) <= MAX_PEAKS

\* scratch_peaks and peaks_out have both been filled to their capacity, and
\* a ridge above the noise floor is left unconsumed
C16_Witness ==
    /\ op = "find_peaks"
    /\ Len(ret.found) = MAX_SCRATCH_PEAKS
    /\ Len(ret.peaks_out) = MAX_PEAKS
    /\ \E k \in 1 .. Len(ret.scratch_peaks) :
          /\ ret.scratch_peaks[k].center # None
          /\ Magnitude(arg.bins[ret.scratch_peaks[k].center[1]]) >= NOISE_FLOOR_AMPLITUDE

\* --------------------------------------- pulse.rs, from peaks to the table

\* the ticks of the timer in a second (config::clk::SYSCLK_HZ): like the
\* clock of the device, faster than the highest frequency a Peak can have
SYSCLK_HZ == 96

\* the frequencies of a Peak whose period the table of the model can hold:
\* of each period, the lowest and the highest
Freqs ==
    { f \in 1 .. SYSCLK_HZ :
        /\ SYSCLK_HZ \div f <= MaxPeriod
        /\ \/ f = SYSCLK_HZ
           \/ SYSCLK_HZ \div (f + 1) # SYSCLK_HZ \div f
           \/ SYSCLK_HZ \div (f - 1) # SYSCLK_HZ \div f }

\* phases of a Peak: 0, half a turn, and the highest factor
Phases == { 0, 2 ^ (FactorBits - 1), U16_MAX }

\* what schedule_pulses reads of a Peak
SchedulePeak == [freq : Freqs, phase : Phases]

SchedulePeaks == UNION { [1 .. n -> SchedulePeak] : n \in 0 .. MAX_PEAKS }

\* a period that is the frequency in units of the tick rate
period_in_units_of_sysclk(peak) == peak.freq \div SYSCLK_HZ

\* Peak::period: Hertz::into_duration
period(peak) == SYSCLK_HZ \div peak.freq

\* a phase offset of one whole period
phase_offset_whole_period(peak) == period(peak)

\* Peak::phase_offset
phase_offset(peak) == scale_by(period(peak), peak.phase)

\* schedule_pulses(peaks, pulses_out)
schedule_pulses(peaks) ==
    [i \in 1 .. Len(peaks) |-> [period |-> period(peaks[i]), next |-> phase_offset(peaks[i])]]

\* the peaks of one buffer, the instant `start` of the swap that makes their
\* pulses live, and a table whose holdoff some earlier pulse has left
InitSchedule ==
    /\ pulses = << >>
    /\ holdoff_until \in Instant
    /\ op = "input"
    /\ arg \in [peaks : SchedulePeaks, start : ApiInstants]
    /\ ret = None
    /\ again = FALSE
    /\ InitTasks

SchedulePulses ==
    /\ op = "input"
    /\ op' = "schedule_pulses"
    /\ next_pulses' = schedule_pulses(arg.peaks)
    /\ UNCHANGED <<arg, ret, again, tableVars, now, scheduled_pulse, tq, dma_pending, sb_pc,
                   start, sb_next, fp_pc, fp_now, pulse_timer, fp_log, sb_log, returned,
                   caller, unscheduled, sb_late, PULSE_WIDTH_TICKS>>

AdjustPulses ==
    /\ op = "schedule_pulses"
    /\ op' = "replace_with_adjusted"
    /\ pulses' = replace_with_adjusted(next_pulses, arg.start)
    /\ UNCHANGED <<arg, ret, again, holdoff_until, taskVars>>

NextAdjustedPulse ==
    /\ op = "replace_with_adjusted"
    /\ LET r == next_pulse(pulses, holdoff_until, arg.start)
       IN  /\ pulses' = r.pulses
           /\ holdoff_until' = r.holdoff_until
           /\ ret' = r.ret
    /\ op' = "next_pulse"
    /\ UNCHANGED <<arg, again, taskVars>>

NextSchedule ==
    \/ SchedulePulses
    \/ AdjustPulses
    \/ NextAdjustedPulse

SpecSchedule == InitSchedule /\ [][NextSchedule]_vars

\* ------------------------------------------- claims on schedule_pulses

\* every pulse has the period of its peak and the offset its phase gives,
\* which is below the period
ScheduledAsPeaks ==
    op = "schedule_pulses" =>
        /\ Len(next_pulses) = Len(arg.peaks)
        /\ \A i \in 1 .. Len(next_pulses) :
              /\ next_pulses[i].period = SYSCLK_HZ \div arg.peaks[i].freq
              /\ next_pulses[i].next
                    = (next_pulses[i].period * arg.peaks[i].phase) \div (U16_MAX + 1)
              /\ 0 <= next_pulses[i].next
              /\ next_pulses[i].next < next_pulses[i].period

\* C17 as claimed: every pulse of schedule_pulses has period 1/frequency and
\* an offset of the period scaled by the phase, with 0 <= offset < period,
\* and next_pulse(start) on the table that replace_with_adjusted(unadjusted,
\* start) has just made returns T with 0 <= T - start <= one period of the
\* chosen pulse
C17_WithinOnePeriod ==
    /\ ScheduledAsPeaks
    /\ (op = "next_pulse" /\ pulses # << >>) =>
          /\ ret # None
          /\ \E i \in 1 .. Len(pulses) :
                /\ pulses[i].next = ret[1]
                /\ OffsetFrom(ret[1], arg.start) <= pulses[i].period

\* the offset of pulse i of the staged table after it has been advanced by
\* the fewest whole periods that bring it to the holdoff h
Advanced(i, h) ==
    LET o == next_pulses[i].next
        q == next_pulses[i].period
    IN  IF o >= h THEN o ELSE o + ((h - o + q - 1) \div q) * q

\* C17, amended: the pulses are as claimed; next_pulse(start) on the table
\* just adjusted to start returns T where T - start is the smallest, over
\* the pulses, of the offset advanced by whole periods up to the holdoff: it
\* is at least the holdoff and less than the holdoff plus the period of the
\* chosen pulse, and is the offset itself (below one period) only for a
\* pulse whose offset is at least the holdoff
C17_WithinPeriodAfterHoldoff ==
    /\ [] ScheduledAsPeaks
    /\ [][ (op = "replace_with_adjusted" /\ op' = "next_pulse" /\ pulses # << >>) =>
             LET h == holdoff_of(holdoff_until, arg.start)
                 d == OffsetFrom(ret'[1], arg.start)
             IN  /\ ret' # None
                 /\ \A i \in 1 .. Len(next_pulses) : d <= Advanced(i, h)
                 /\ \E i \in 1 .. Len(next_pulses) :
                       /\ d = Advanced(i, h)
                       /\ pulses'[i].next = ret'[1]
                       /\ d < h + next_pulses[i].period
                       /\ next_pulses[i].next >= h => d < next_pulses[i].period
                 /\ d >= h ]_vars

\* a single pulse of period 2 and offset 1 is returned more than one period
\* after start
C17_Witness ==
    /\ op = "next_pulse"
    /\ Len(pulses) = 1
    /\ next_pulses[1].next = 1
    /\ pulses[1].period = MaxPeriod
    /\ ret = Some(pulses[1].next)
    /\ OffsetFrom(ret[1], arg.start) > pulses[1].period

\* ------------------------------------------------------ fft/equalizer.rs

\* config::fft::MAX_AMPLITUDE
MAX_AMPLITUDE == 8192

I16_MAX == 32767

\* the components of a bin: the ends of i16, small and large values
Components == { -I16_MAX - 1, -20000, -2048, -1, 0, 1, 2047, 20000, I16_MAX }

\* the division of Rust, which rounds towards zero
div_trunc(a, b) == IF a >= 0 THEN a \div b ELSE -((-a) \div b)

\* ScalingFactor::from_ratio
from_ratio(num, denom) == (U16_MAX * num) \div denom

\* Truncate::truncate from i32 to i16 of a release build (`self as i16`)
truncate_i16(x) == ((x + I16_MAX + 1) % (2 * (I16_MAX + 1))) - (I16_MAX + 1)

\* apply_to, step 1: the frequency response at bin i
freq_response_at(i) ==
    LET progress_in_freq_range == from_ratio(i, BUF_LEN_COMPLEX_REAL)
        range_compression == from_ratio(15, 16)
    IN  MAX_AMPLITUDE
          - scale_by(scale_by(MAX_AMPLITUDE, progress_in_freq_range), range_compression)

\* apply_to, steps 2 and 3: prescale, then scale down by the frequency response
downscaled(i, x) == div_trunc(x * MAX_AMPLITUDE, freq_response_at(i))

\* apply_to, apply_scaling of bin i
apply_scaling(i, x) == truncate_i16(downscaled(i, x))

\* a bin of the spectrum, before the equalizer is applied to it
InitEqualizer ==
    /\ pulses = << >>
    /\ holdoff_until = 0
    /\ op = "input"
    /\ arg \in [i : 0 .. BUF_LEN_COMPLEX_REAL - 1, bin : [re : Components, im : Components]]
    /\ ret = None
    /\ again = FALSE
    /\ InitTasks

\* the turn of the loop of apply_to for bin i
ApplyTo ==
    /\ op = "input"
    /\ op' = "apply_to"
    /\ ret' = Complex(apply_scaling(arg.i, arg.bin.re), apply_scaling(arg.i, arg.bin.im))
    /\ UNCHANGED <<arg, again, tableVars, taskVars>>

NextEqualizer == ApplyTo

SpecEqualizer == InitEqualizer /\ [][NextEqualizer]_vars

\* ------------------------------------------------------ claims on truncation

\* x brought into the range of i16 by clamping
ClampedI16(x) == IF x > I16_MAX THEN I16_MAX ELSE IF x < -I16_MAX - 1 THEN -I16_MAX - 1 ELSE x

\* C18: in a release build the truncation of a value that does not fit the
\* target type gives the bound of the type (the value is clamped), never a
\* wrapped value; here the truncation to i16 of the equalizer
C18_TruncationSaturates ==
    op = "apply_to" =>
        /\ ret.re = ClampedI16(downscaled(arg.i, arg.bin.re))
        /\ ret.im = ClampedI16(downscaled(arg.i, arg.bin.im))

\* ------------------------------------- claims on the comparisons of next_pulse

\* C19: next_pulse compares holdoff_until and every pulse's next with `after`
\* by the wrapping difference, a difference below half the counter range
\* being in the future and any other being past, with no time remaining: a
\* pulse whose next is past is below the holdoff like a pulse that is due
\* now, so it is advanced, and the instant returned is never a past one
C19_HalfRangeEverywhere ==
    [][ (op' = "next_pulse" /\ pulses # << >>) =>
          LET after == arg'
              raw == wrapping_sub(holdoff_until, after)
              remaining == IF raw < HalfRange THEN raw ELSE 0
              holdoff == IF remaining >= MIN_HOLDOFF THEN remaining ELSE MIN_HOLDOFF
          IN  /\ \A i \in 1 .. Len(pulses) :
                    /\ wrapping_sub(pulses[i].next, after) >= HalfRange
                          => pulses'[i].next # pulses[i].next
                    /\ wrapping_sub(pulses[i].next, after) < holdoff
                          => pulses'[i].next # pulses[i].next
              /\ ret' # None
              /\ wrapping_sub(ret'[1], after) < HalfRange ]_vars

\* C20: after next_pulse(after) on a non-empty table the wrapping difference
\* from `after` to every pulse's next is at least the holdoff, the larger of
\* the time remaining until holdoff_until and MIN_HOLDOFF; a pulse that was
\* below the holdoff has been advanced by the smallest whole number of its
\* own periods that reaches it, which keeps its phase modulo its period, and
\* a pulse that was at or beyond the holdoff is unchanged
C20_AdvancedToHoldoff ==
    [][ (op' = "next_pulse" /\ pulses # << >>) =>
          LET after == arg'
              raw == wrapping_sub(holdoff_until, after)
              remaining == IF raw < HalfRange THEN raw ELSE 0
              holdoff == IF remaining >= MIN_HOLDOFF THEN remaining ELSE MIN_HOLDOFF
          IN  /\ Len(pulses') = Len(pulses)
              /\ \A i \in 1 .. Len(pulses) :
                    LET q == pulses[i].period
                        o == OffsetFrom(pulses[i].next, after)
                        o2 == OffsetFrom(pulses'[i].next, after)
                    IN  /\ pulses'[i].period = q
                        /\ o2 >= holdoff
                        /\ IF o < holdoff
                           THEN \E k \in 1 .. holdoff :
                                   /\ o + (k - 1) * q < holdoff
                                   /\ o2 = o + k * q
                                   /\ pulses'[i].next = (pulses[i].next + k * q) % TickRange
                                   /\ o2 % q = o % q
                           ELSE pulses'[i] = pulses[i] ]_vars

\* next_pulse, called just before the counter wrap, has returned the pulse
\* of period 1 three ticks later, past the wrap, and left the pulse of
\* period 2 five ticks after `after`
C20_Witness ==
    /\ op = "next_pulse" /\ arg = MaxTick /\ Len(pulses) = 2
    /\ pulses[1].period = 1 /\ pulses[2].period = 2
    /\ OffsetFrom(pulses[1].next, arg) = 3
    /\ OffsetFrom(pulses[2].next, arg) = 5
    /\ ret = Some(pulses[1].next)

\* ------------------------------------------- claims on the ridges of find_peaks

\* the bins that ridge detection recorded, in the order of recording
Centers == [k \in 1 .. Len(ret.found) |-> ret.found[k].center[1]]

\* bin c is strictly above its neighbours (bin 0 is a neighbour of bin 1, and the
\* last bin has one neighbour)
StrictLocalMax(bins, c) ==
    /\ amplitude_squared(bins[c - 1]) < amplitude_squared(bins[c])
    /\ c + 1 < BUF_LEN_COMPLEX_REAL =>
          amplitude_squared(bins[c + 1]) < amplitude_squared(bins[c])

\* C21: ridge detection ends for every spectrum, without a fault, and records
\* bins in strictly increasing order (one pass from left to right, each bin at
\* most once); every strict local maximum among bins 1 .. N-1 is recorded;
\* every recorded bin c has squared magnitude not below that of bin c-1 (when
\* c >= 2) and strictly above that of bin c+1 (when c <= N-2); the DC bin is
\* never recorded
C21_RidgesAreLocalMaxima ==
    op = "find_peaks" =>
        /\ ~ret.fault
        /\ \A k \in 1 .. Len(ret.found) : ret.found[k].center # None
        /\ \A k \in 2 .. Len(ret.found) : Centers[k - 1] < Centers[k]
        /\ \A c \in FIRST_NON_DC_BIN .. BUF_LEN_COMPLEX_REAL - 1 :
              StrictLocalMax(arg.bins, c) => \E k \in 1 .. Len(ret.found) : Centers[k] = c
        /\ \A k \in 1 .. Len(ret.found) :
              LET c == Centers[k]
              IN  /\ c >= FIRST_NON_DC_BIN
                  /\ c >= 2 => amplitude_squared(arg.bins[c]) >= amplitude_squared(arg.bins[c - 1])
                  /\ c <= BUF_LEN_COMPLEX_REAL - 2 =>
                        amplitude_squared(arg.bins[c]) > amplitude_squared(arg.bins[c + 1])

\* two ridges were recorded: the end of a plateau at bins 1 and 2, and a strict
\* local maximum at bin 4
C21_Witness ==
    /\ op = "find_peaks"
    /\ Centers = << 2, 4 >>
    /\ arg.bins[1] = arg.bins[2] /\ arg.bins[1] # Complex(0, 0)
    /\ StrictLocalMax(arg.bins, 4)

\* C22: within one run each ridge is selected at most once (the bins selected,
\* apart from the placeholder bin 0 of a consumed first ridge, are pairwise
\* distinct recorded ridges, and each is consumed afterwards); the stored Peaks
\* come from pairwise distinct bins and appear in non-increasing order of
\* magnitude
C22_DistinctAndDescending ==
    op = "find_peaks" =>
        /\ \A m, n \in 1 .. Len(ret.selected) :
              (m # n /\ ret.selected[m] # 0) => ret.selected[m] # ret.selected[n]
        /\ \A n \in 1 .. Len(ret.selected) :
              ret.selected[n] # 0 =>
                  \E k \in 1 .. Len(ret.found) :
                      /\ Centers[k] = ret.selected[n]
                      /\ ret.scratch_peaks[k].center = None
        /\ \A m, n \in 1 .. Len(ret.peaks_out) :
              m < n =>
                  /\ ret.peaks_out[m].i # ret.peaks_out[n].i
                  /\ ret.peaks_out[m].amplitude >= ret.peaks_out[n].amplitude
                  /\ amplitude_squared(arg.bins[ret.peaks_out[m].i])
                        >= amplitude_squared(arg.bins[ret.peaks_out[n].i])

\* two Peaks of different magnitude were stored, the higher one first although
\* it lies at the higher bin
C22_Witness ==
    /\ op = "find_peaks"
    /\ Len(ret.peaks_out) = 2
    /\ ret.peaks_out[1].i > ret.peaks_out[2].i
    /\ ret.peaks_out[1].amplitude > ret.peaks_out[2].amplitude

\* --------------------------------------------------------------- fft/imp.rs

\* log2 of the length of the complex buffer (N_LOG2 of a buffer of N bins)
N_LOG2 == 3

N == 2 ^ N_LOG2

SCALE == 1

\* the table of build.rs (gen_fft_sin_table) for 16 entries:
\* round(i16::MAX * sin(2 pi i / 16)), entry i at place i + 1
SIN_16 ==
    << 0, 12539, 23170, 30273, 32767, 30273, 23170, 12539,
       0, -12539, -23170, -30273, -32767, -30273, -23170, -12539 >>

\* SIN_TABLE[i]: the first 3N/4 entries of the table for N entries; None
\* stands for an index outside the table
SIN_TABLE(i) ==
    IF i < 0 \/ i >= (N * 3) \div 4 THEN None ELSE Some(SIN_16[i * (16 \div N) + 1])

\* x >> k of a signed integer
shr(x, k) == x \div (2 ^ k)

\* the bins of the input: both components at either end of i16
FftValues == { Complex(re, im) : re, im \in { -I16_MAX - 1, I16_MAX } }

FftBuffers == [0 .. N - 1 -> FftValues]

\* the highest bit of the buffer length, whatever x
highest_bit_of_index(x) == N \div 2

\* isolate_highest_set_bit, for 0 < x < 2N
isolate_highest_set_bit(x) ==
    CHOOSE l \in { 2 ^ k : k \in 0 .. N_LOG2 } : l <= x /\ x < 2 * l

\* radix2, "decimation in time - re-order data": the loop from turn m on;
\* `swaps` lists the pairs swapped (not a value of the code), fault is a shift
\* by the whole width of usize in isolate_highest_set_bit(0)
RECURSIVE reorder(_, _, _, _)
reorder(f, m, mr, swaps) ==
    IF m >= N THEN [f |-> f, swaps |-> swaps, fault |-> FALSE]
    ELSE IF N - 1 - mr = 0 THEN [f |-> f, swaps |-> swaps, fault |-> TRUE]
    ELSE
    LET swap(mr2) ==
            IF mr2 > m
            THEN reorder([f EXCEPT ![m] = f[mr2], ![mr2] = f[m]], m + 1, mr2,
                         Append(swaps, << m, mr2 >>))
            ELSE reorder(f, m + 1, mr2, swaps)
        \* mr & (l - 1), l a power of two
        advance(l) == swap((mr % l) + l)
    IN  advance(isolate_highest_set_bit(N - 1 - mr))

\* the body of the inner loop of run_stage for the pair (i, j): the new f[i]
\* and f[j], and whether a sum or difference left i16 (a release build wraps,
\* a debug build panics)
butterfly(fi, fj, wr, wi) ==
    LET round == 2 ^ 14
        sums(qr, qi, tr, ti) ==
            [i |-> Complex(truncate_i16(qr + tr), truncate_i16(qi + ti)),
             j |-> Complex(truncate_i16(qr - tr), truncate_i16(qi - ti)),
             overflow |-> \E x \in { qr + tr, qi + ti, qr - tr, qi - ti } :
                              x > I16_MAX \/ x < -I16_MAX - 1]
    IN  sums(shr(fi.re, SCALE), shr(fi.im, SCALE),
             truncate_i16(shr((wr * fj.re - wi * fj.im) + round, 15)),
             truncate_i16(shr((wr * fj.im + wi * fj.re) + round, 15)))

\* run_stage::<STAGE>: [f, overflow, lookup_fault]; the pairs of one stage are
\* disjoint, so each bin is computed from the pair it belongs to
run_stage(STAGE, f) ==
    LET inverse_stage == N_LOG2 - 1 - STAGE
        stride == 2 ^ STAGE
        step == 2 * stride
        iw(m) == m * 2 ^ inverse_stage
        lookup(i) == IF SIN_TABLE(i) = None THEN 0 ELSE SIN_TABLE(i)[1]
        wr(m) == shr(lookup(iw(m) + N \div 4), SCALE)
        wi(m) == shr(-lookup(iw(m)), SCALE)
        pair(i) == butterfly(f[i], f[i + stride], wr(i % step), wi(i % step))
        lower(p) == p % step < stride
    IN  [f |-> [p \in 0 .. N - 1 |-> IF lower(p) THEN pair(p).i ELSE pair(p - stride).j],
         overflow |-> \E p \in 0 .. N - 1 : lower(p) /\ pair(p).overflow,
         lookup_fault |-> \E m \in 0 .. stride - 1 :
                              SIN_TABLE(iw(m)) = None \/ SIN_TABLE(iw(m) + N \div 4) = None]

\* a buffer of complex values, before radix2 is applied to it
InitFft ==
    /\ pulses = << >>
    /\ holdoff_until = 0
    /\ op = "input"
    /\ arg \in FftBuffers
    /\ ret = None
    /\ again = FALSE
    /\ InitTasks

\* radix2, the re-ordering loop
Reorder ==
    /\ op = "input"
    /\ op' = "reorder"
    /\ LET done(r) == [f |-> r.f, swaps |-> r.swaps, fault |-> r.fault, stage |-> 0,
                       overflow |-> FALSE, lookup_fault |-> FALSE]
       IN  ret' = done(reorder(arg, 1, 0, << >>))
    /\ UNCHANGED <<arg, again, tableVars, taskVars>>

\* radix2, the next run_stage
RunStage ==
    /\ op \in { "reorder", "run_stage" }
    /\ ret.stage < N_LOG2
    /\ op' = "run_stage"
    /\ LET done(r) == [ret EXCEPT !.f = r.f, !.stage = @ + 1,
                                  !.overflow = @ \/ r.overflow,
                                  !.lookup_fault = @ \/ r.lookup_fault]
       IN  ret' = done(run_stage(ret.stage, ret.f))
    /\ UNCHANGED <<arg, again, tableVars, taskVars>>

NextFft ==
    \/ Reorder
    \/ RunStage

SpecFft == InitFft /\ [][NextFft]_vars

\* --------------------------------------------------------- claims on radix2

\* the index whose `bits` low bits are those of m in reverse order
RECURSIVE ReverseBits(_, _)
ReverseBits(m, bits) ==
    IF bits = 0 THEN 0
    ELSE (m % 2) * 2 ^ (bits - 1) + ReverseBits(m \div 2, bits - 1)

\* the pairs that the re-ordering loop swapped
Swapped == { ret.swaps[k] : k \in 1 .. Len(ret.swaps) }

\* C23: for N a power of two the re-ordering loop of radix2 is the
\* bit-reversal permutation: afterwards every index m holds the element that
\* was at the index with the log2(N) bits of m reversed, and every pair of
\* indices that are each other's reversal, and no other pair, was swapped
\* exactly once
C23_BitReversal ==
    op = "reorder" =>
        /\ ~ret.fault
        /\ \A m \in 0 .. N - 1 : ret.f[m] = arg[ReverseBits(m, N_LOG2)]
        /\ \A k \in 1 .. Len(ret.swaps) :
              /\ ret.swaps[k][1] < ret.swaps[k][2]
              /\ ret.swaps[k][2] = ReverseBits(ret.swaps[k][1], N_LOG2)
        /\ \A m \in 0 .. N - 1 :
              m < ReverseBits(m, N_LOG2) =>
                  Cardinality({ k \in 1 .. Len(ret.swaps) :
                                  ret.swaps[k] = << m, ReverseBits(m, N_LOG2) >> }) = 1
        /\ Cardinality(Swapped) = Len(ret.swaps)

\* a buffer whose bin 1 differs from bin N/2 and whose bin 3 differs from
\* bin 3N/4 has been re-ordered: the bins of both pairs have changed places
C23_Witness ==
    /\ op = "reorder"
    /\ arg[1] # arg[N \div 2] /\ arg[3] # arg[ReverseBits(3, N_LOG2)]
    /\ ret.f[1] = arg[N \div 2] /\ ret.f[N \div 2] = arg[1]
    /\ ret.f[3] = arg[ReverseBits(3, N_LOG2)]
    /\ << 1, N \div 2 >> \in Swapped

\* C24: radix2 is total for every buffer of i16 values: every twiddle lookup
\* is inside the sine table, and no butterfly of any stage produces a value
\* outside the range of i16, so nothing overflows and nothing is wrapped
C24_NoOverflow ==
    op \in { "reorder", "run_stage" } => ~ret.lookup_fault /\ ~ret.overflow

\* ------------------------------------------------------------ fft/window.rs

\* the processed samples: signed values of the resolution of the ADC
WindowSamples == -(2 ^ (RESOLUTION_BITS - 1)) .. 2 ^ (RESOLUTION_BITS - 1) - 1

\* coefficients of the windows: RECTANGLE (every entry), HAMMING[0], HANN[0]
RECTANGLE == U16_MAX

WindowCoefficients == { RECTANGLE, 5028, 0 }

\* apply_with_scaling, "scale up samples to use full i16 range"
full_range(x) == truncate_i16(x * 2 ^ (FactorBits - RESOLUTION_BITS))

\* apply_with_scaling, the body of the loop: ScaleBy<u16> for i16
windowed(x, scale) == truncate_i16(scale_by(full_range(x), scale))

\* a sample and the coefficient of the window at its index
InitWindow ==
    /\ pulses = << >>
    /\ holdoff_until = 0
    /\ op = "input"
    /\ arg \in [x : WindowSamples, scale : WindowCoefficients]
    /\ ret = None
    /\ again = FALSE
    /\ InitTasks

\* the turn of the loop of apply_with_scaling for one sample
ApplyWithScaling ==
    /\ op = "input"
    /\ op' = "apply_with_scaling"
    /\ ret' = windowed(arg.x, arg.scale)
    /\ UNCHANGED <<arg, again, tableVars, taskVars>>

NextWindow == ApplyWithScaling

SpecWindow == InitWindow /\ [][NextWindow]_vars

\* C25: with the rectangle window the window stage does nothing but the fixed
\* pre-shift: scaling a sample by the rectangle coefficient, the scaling factor
\* that stands for one, returns the sample unchanged
C25_RectangleIsNoOp ==
    (op = "apply_with_scaling" /\ arg.scale = RECTANGLE) => ret = full_range(arg.x)

\* ------------------------------------------------------------- indicator.rs

\* the length of the buffer of raw samples (config::adc::BUF_LEN_RAW)
BUF_LEN_RAW == 3

\* the number of indicators (N of indicator.rs)
N_INDICATORS == 4

MAX_POSSIBLE_SAMPLE == 2 ^ RESOLUTION_BITS - 1

\* raw samples: the clipping bounds, their neighbours, the middle and values
\* in between
RawSamples == { 0, 1, 1000, MAX_POSSIBLE_SAMPLE \div 2, MAX_POSSIBLE_SAMPLE \div 2 + 1,
                3000, MAX_POSSIBLE_SAMPLE - 1, MAX_POSSIBLE_SAMPLE }

RawBuffers == [1 .. BUF_LEN_RAW -> RawSamples]

\* amplitude, step 1: the fold of the loop over the samples from place k on
RECURSIVE min_max_sample(_, _, _, _)
min_max_sample(input, k, min_sample, max_sample) ==
    IF k > Len(input) THEN [min_sample |-> min_sample, max_sample |-> max_sample]
    ELSE min_max_sample(input, k + 1,
                        IF input[k] < min_sample THEN input[k] ELSE min_sample,
                        IF input[k] > max_sample THEN input[k] ELSE max_sample)

\* ScalingFactor::distribute::<N>, the factor of bucket i
distribute(overall_factor, i) ==
    LET local(max_factor_over_n, local_factor_over_n) ==
            IF local_factor_over_n >= max_factor_over_n THEN U16_MAX
            ELSE local_factor_over_n * N_INDICATORS
        bucket(max_factor_over_n) ==
            local(max_factor_over_n,
                  IF overall_factor >= i * max_factor_over_n
                  THEN overall_factor - i * max_factor_over_n ELSE 0)
    IN  bucket(U16_MAX \div N_INDICATORS)

\* amplitude, steps 2 to 5: `underflow` when a subtraction of u16 values went
\* below zero, `overflow` when the value given to from_sample does not fit
\* the resolution of the ADC (a debug build panics on either, a release build
\* wraps)
amplitude(input) ==
    LET max_possible_sample == MAX_POSSIBLE_SAMPLE
        factors(closeness, adjusted, overall_factor, underflow) ==
            [closeness_to_max_possible_sample |-> closeness,
             adjusted_closeness_to_half_max_sample |-> adjusted,
             overall_factor |-> overall_factor,
             factors |-> [i \in 0 .. N_INDICATORS - 1 |-> distribute(overall_factor, i)],
             underflow |-> underflow,
             overflow |-> adjusted >= 2 ^ RESOLUTION_BITS]
        adjust(closeness, underflow) ==
            LET adjusted == truncate((closeness - max_possible_sample \div 2) * 2)
            IN  factors(closeness, adjusted, from_sample(adjusted),
                        underflow \/ closeness < max_possible_sample \div 2)
        closest(close_to_max, close_to_min, underflow) ==
            LET closest_to_clipping ==
                    IF close_to_max < close_to_min THEN close_to_max ELSE close_to_min
            IN  adjust(truncate(max_possible_sample - closest_to_clipping),
                       underflow \/ closest_to_clipping > max_possible_sample)
        extremes(mm) ==
            closest(truncate(max_possible_sample - mm.max_sample), mm.min_sample,
                    mm.max_sample > max_possible_sample)
    IN  extremes(min_max_sample(input, 1, U16_MAX, 0))

\* a buffer of raw samples, before the indicated amplitude is computed
InitIndicator ==
    /\ pulses = << >>
    /\ holdoff_until = 0
    /\ op = "input"
    /\ arg \in RawBuffers
    /\ ret = None
    /\ again = FALSE
    /\ InitTasks

Amplitude ==
    /\ op = "input"
    /\ op' = "amplitude"
    /\ ret' = amplitude(arg)
    /\ UNCHANGED <<arg, again, tableVars, taskVars>>

NextIndicator == Amplitude

SpecIndicator == InitIndicator /\ [][NextIndicator]_vars

\* a sample of the buffer is at a clipping bound
Clipping(input) == \E k \in 1 .. Len(input) : input[k] \in { 0, MAX_POSSIBLE_SAMPLE }

\* C26: for every raw buffer of samples within 0 ..= MAX_POSSIBLE_SAMPLE the
\* closeness lies in MAX_POSSIBLE_SAMPLE/2 ..= MAX_POSSIBLE_SAMPLE and the
\* adjusted value in 0 ..= MAX_POSSIBLE_SAMPLE, so no subtraction underflows
\* and the value fits the resolution of the ADC when it is made a scaling
\* factor, and the factor is greatest when a sample is at a clipping bound
C26_AmplitudeInRange ==
    op = "amplitude" =>
        /\ ret.closeness_to_max_possible_sample
              \in MAX_POSSIBLE_SAMPLE \div 2 .. MAX_POSSIBLE_SAMPLE
        /\ ret.adjusted_closeness_to_half_max_sample \in 0 .. MAX_POSSIBLE_SAMPLE
        /\ ~ret.underflow
        /\ ~ret.overflow
        /\ Clipping(arg) =>
              \A other \in RawBuffers : amplitude(other).overall_factor <= ret.overall_factor

\* --------------------------------------------- claims on the coordinator

\* no task is inside its section on (pulses, scheduled_pulse)
OutsideSections == ~InCritical /\ fp_pc = "idle"

\* C27: outside the critical sections, after any sequence of swap_buffers and
\* fire_pulse runs, the timer queue holds a fire_pulse exactly when the live
\* table is not empty; its instant is the `next` of a live pulse and
\* scheduled_pulse holds its handle. A fire_pulse that runs finds its pulse,
\* and spawn_at never fails, in fire_pulse or in swap_buffers.
C27_OneFirePending ==
    /\ OutsideSections =>
         /\ (pulses = << >>) = (tq = None)
         /\ tq # None =>
              /\ Matching(pulses, tq[1].at) # {}
              /\ scheduled_pulse = Some(tq[1].marker)
    /\ fp_log \notin {"not present", "overrun"}
    /\ sb_log.arm # "overrun"

\* C27 witness: fire_pulse has run for its instant, found its pulse and armed
\* itself again for a pulse of the table, after swap_buffers armed it first
C27_Witness ==
    /\ OutsideSections
    /\ fp_log = "rearmed" /\ sb_log.arm = "ok"
    /\ Len(pulses) = 2
    /\ tq # None /\ Cardinality(Matching(pulses, tq[1].at)) = 1

\* ------------------------- from a spectrum to the next pulse of the table

\* the values of a bin: nothing, the noise floor, and a tone above it
LiveBinValues == { Complex(0, 0), Complex(4, 0), Complex(6, 8) }

LiveSpectra == [0 .. BUF_LEN_COMPLEX_REAL - 1 -> LiveBinValues]

\* the instants a swap starts at: the first and the last of the counter
LiveStarts == { 0, MaxTick }

\* the peaks find_peaks stores for an input
LivePeaks(a) == find_peaks(a.bins, << >>, from_sample(a.amplitude_threshold), << >>).peaks_out

\* the inputs whose peaks have periods below half the range of the counter
\* of the model, as every period is on the device (SYSCLK_HZ < u32::MAX / 2)
LiveInputs ==
    { a \in [bins : LiveSpectra, amplitude_threshold : ControlSamples, start : LiveStarts] :
        \A k \in 1 .. Len(LivePeaks(a)) : period(LivePeaks(a)[k]) < HalfRange }

\* process_buffer: the Peaks of find_peaks with the phase math::phase gives
\* them (cordic::atan2 of the bin: any factor)
peaks_with_phases(peaks_out, phases) ==
    [k \in 1 .. Len(peaks_out) |-> [freq |-> peaks_out[k].freq, phase |-> phases[k]]]

\* next_pulse: the while loop of some pulse never ends (it adds a period of
\* zero to an offset below the holdoff)
never_returns(ps, hu, after) ==
    \E i \in 1 .. Len(ps) :
        /\ ps[i].period = 0
        /\ wrapping_sub(ps[i].next, after) < holdoff_of(hu, after)

\* a spectrum, a control sample and the instant of the next swap, with the
\* holdoff some earlier pulse has left
InitLive ==
    /\ pulses = << >>
    /\ holdoff_until \in Instant
    /\ op = "input"
    /\ arg \in LiveInputs
    /\ ret = None
    /\ again = FALSE
    /\ InitTasks

\* swap_buffers, phase 3: find_peaks on the spectrum
FindLivePeaks ==
    /\ op = "input"
    /\ op' = "find_peaks"
    /\ ret' = find_peaks(arg.bins, << >>, from_sample(arg.amplitude_threshold), << >>)
    /\ UNCHANGED <<arg, again, tableVars, taskVars>>

\* swap_buffers, phase 3: schedule_pulses on the peaks found
ScheduleLivePulses ==
    /\ op = "find_peaks"
    /\ op' = "schedule_pulses"
    /\ \E phases \in [1 .. Len(ret.peaks_out) -> Phases] :
          next_pulses' = schedule_pulses(peaks_with_phases(ret.peaks_out, phases))
    /\ UNCHANGED <<arg, ret, again, tableVars, now, scheduled_pulse, tq, dma_pending, sb_pc,
                   start, sb_next, fp_pc, fp_now, pulse_timer, fp_log, sb_log, returned,
                   caller, unscheduled, sb_late, PULSE_WIDTH_TICKS>>

\* the next swap_buffers, phase 1, step 2: next_pulse(start) on the table
\* just adjusted; a call that never returns leaves the task in it
NextLivePulse ==
    /\ op = "replace_with_adjusted"
    /\ IF never_returns(pulses, holdoff_until, arg.start)
       THEN /\ op' = "next_pulse never returns"
            /\ UNCHANGED <<tableVars, ret>>
       ELSE LET r == next_pulse(pulses, holdoff_until, arg.start)
            IN  /\ pulses' = r.pulses
                /\ holdoff_until' = r.holdoff_until
                /\ ret' = r.ret
                /\ op' = "next_pulse"
    /\ UNCHANGED <<arg, again, taskVars>>

NextLive ==
    \/ FindLivePeaks
    \/ ScheduleLivePulses
    \/ AdjustPulses
    \/ NextLivePulse

SpecLive == InitLive /\ [][NextLive]_vars

\* --------------------------------------------- claims on the live table

\* the turns the loop of next_pulse takes on a pulse of period q > 0 whose
\* offset is o, under the holdoff h
Turns(o, q, h) == IF o >= h THEN 0 ELSE (h - o + q - 1) \div q

\* C28: next_pulse returns on every live table made by find_peaks,
\* schedule_pulses and replace_with_adjusted: every stored Peak has
\* 0 < freq <= MAX_FREQ, every pulse made of one has period > 0, and the
\* loop of next_pulse advances each pulse by whole periods, at most as many
\* as the holdoff has ticks, until its offset is no longer below the holdoff.
C28_NextPulseTerminates ==
    /\ [](op = "find_peaks" =>
            \A k \in 1 .. Len(ret.peaks_out) :
                0 < ret.peaks_out[k].freq /\ ret.peaks_out[k].freq <= MAX_FREQ)
    /\ [](op = "schedule_pulses" =>
            \A i \in 1 .. Len(next_pulses) : next_pulses[i].period > 0)
    /\ [](op = "replace_with_adjusted" =>
            \A i \in 1 .. Len(pulses) : pulses[i].period > 0)
    /\ [](op # "next_pulse never returns")
    /\ [][ op = "replace_with_adjusted" =>
             /\ op' = "next_pulse"
             /\ \A i \in 1 .. Len(pulses) :
                   LET h == holdoff_of(holdoff_until, arg.start)
                       o == wrapping_sub(pulses[i].next, arg.start)
                       q == pulses[i].period
                       n == Turns(o, q, h)
                   IN  /\ n <= h
                       /\ pulses'[i].period = q
                       /\ pulses'[i].next = InstantAdd(pulses[i].next, n * q)
                       /\ o + n * q >= h
                       /\ n > 0 => o + (n - 1) * q < h ]_vars

\* C28 witness: next_pulse has returned after its loop advanced a pulse of
\* period 1, made of a peak of find_peaks, by three turns or more
C28_Witness ==
    /\ op = "next_pulse"
    /\ \E i \in 1 .. Len(pulses) :
          /\ pulses[i].period = 1
          /\ wrapping_sub(pulses[i].next, InstantAdd(arg.start, next_pulses[i].next)) >= 3

\* ------------------------------------- claims on the selection of find_peaks

\* the ridge at bin c meets every condition of phase 2: above the
\* minimum-frequency bin, at or above the noise floor and the threshold of
\* the sensitivity control, and with a valid refined frequency
Qualifies(c) ==
    LET m == Magnitude(arg.bins[c])
    IN  /\ c > min_freq_bin
        /\ m >= NOISE_FLOOR_AMPLITUDE
        /\ ret.absolute_highest_amplitude # None
        /\ m >= to_value_in_range(from_sample(arg.amplitude_threshold), NOISE_FLOOR_AMPLITUDE,
                                  ret.absolute_highest_amplitude[1])
        /\ refine_freq(arg.bins, c, m).freq # None

\* a Peak was stored for the ridge at bin c
StoredFor(c) == \E k \in 1 .. Len(ret.peaks_out) : ret.peaks_out[k].i = c

\* the ridges of phase 1 that qualify and have no Peak
LeftOut == { c \in { Centers[k] : k \in 1 .. Len(ret.found) } : Qualifies(c) /\ ~StoredFor(c) }

Discarded(c) ==
    \/ c <= min_freq_bin
    \/ refine_freq(arg.bins, c, Magnitude(arg.bins[c])).freq = None

DurationRange == DURATION_RANGE_START .. DURATION_RANGE_END - 1

\* C30: no pulse is fired with the initial pulse width of zero. Until
\* swap_buffers has stored a width nothing is scheduled and fire_pulse does
\* not run; PULSE_WIDTH_TICKS changes only in phase 2 of swap_buffers, to a
\* width of DURATION_RANGE; and the width fire_pulse loads when it fires the
\* timer is one of DURATION_RANGE.
C30_WidthInRange ==
    /\ [](PULSE_WIDTH_TICKS = 0 => (tq = None /\ fp_pc = "idle" /\ pulses = << >>))
    /\ [](PULSE_WIDTH_TICKS # 0 => PULSE_WIDTH_TICKS \in DurationRange)
    /\ [][ PULSE_WIDTH_TICKS' # PULSE_WIDTH_TICKS =>
             (sb_pc = "controls" /\ sb_pc' = "process") ]_vars
    /\ [][ (sb_pc = "controls" /\ sb_pc' = "process") =>
             PULSE_WIDTH_TICKS' \in DurationRange ]_vars
    /\ [][ (fp_pc = "fire" /\ fp_pc' = "consume") =>
             (pulse_timer' = "fired" /\ PULSE_WIDTH_TICKS \in DurationRange) ]_vars

\* C30 witness: fire_pulse has fired the timer with the longest width while
\* swap_buffers, which it preempted, has armed its next run and not yet
\* stored the width of this cycle
C30_Witness ==
    /\ fp_pc = "consume" /\ pulse_timer = "fired"
    /\ sb_pc = "controls"
    /\ PULSE_WIDTH_TICKS = DURATION_RANGE_END - 1

====
